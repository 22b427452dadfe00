---- MODULE CommandLineProofs ----
(***************************************************************************)
(* Proofs about the commands of a10-certctl.                               *)
(***************************************************************************)
EXTENDS CommandLine, SequenceTheorems, TLAPS

----------------------------------------------------------------------------
(* The requests a command can make. *)

LEMMA ConcatElement ==
    ASSUME NEW S, NEW s \in Seq(S), NEW t \in Seq(S), NEW i \in DOMAIN (s \o t)
    PROVE  \/ i \in DOMAIN s /\ (s \o t)[i] = s[i]
           \/ i - Len(s) \in DOMAIN t /\ (s \o t)[i] = t[i - Len(s)]
  <1>1. s \o t \in Seq(S) /\ Len(s \o t) = Len(s) + Len(t)
    BY ConcatProperties
  <1>2. i \in 1 .. Len(s) + Len(t) /\ i \in Nat
    BY <1>1
  <1>3. Len(s) \in Nat /\ Len(t) \in Nat
    OBVIOUS
  <1>4. CASE i <= Len(s)
    <2>1. (s \o t)[i] = s[i]
      BY <1>2, <1>3, <1>4, ConcatProperties
    <2>2. i \in DOMAIN s
      BY <1>2, <1>3, <1>4
    <2> QED BY <2>1, <2>2
  <1>5. CASE i > Len(s)
    <2>1. (s \o t)[i] = t[i - Len(s)]
      BY <1>2, <1>3, <1>5, ConcatProperties
    <2>2. i - Len(s) \in DOMAIN t
      BY <1>2, <1>3, <1>5
    <2> QED BY <2>1, <2>2
  <1> QED BY <1>2, <1>3, <1>4, <1>5

LEMMA OnlyElement ==
    ASSUME NEW S, NEW c \in BOOLEAN, NEW x, c => x \in S
    PROVE  /\ Only(c, x) \in Seq(S)
           /\ \A i \in DOMAIN Only(c, x) : c /\ Only(c, x)[i] = x
  <1>1. CASE c
    <2>1. Only(c, x) = <<x>>
      BY <1>1 DEF Only
    <2> QED BY <2>1, <1>1
  <1>2. CASE ~ c
    <2>1. Only(c, x) = <<>>
      BY <1>2 DEF Only
    <2>2. DOMAIN <<>> = {}
      OBVIOUS
    <2> QED BY <2>1, <2>2
  <1> QED BY <1>1, <1>2

LEMMA NameTyped == ASSUME NEW n \in Names PROVE <<"cert", n>> \in Stored /\ <<"key", n>> \in Stored
  BY DEF Stored, File

USE DEF ImportCommand, BindCommand, UnbindCommand, DeleteCommand, StatusCommand

(* The four requests of an import, the key first. *)
LEMMA ImportElement ==
    ASSUME NEW cmd \in Command, cmd.do = "import"
    PROVE  /\ Program(cmd) \in Seq(Message)
           /\ Program(cmd)[1] = Upload(<<"key", cmd.name>>, Piece(cmd.bundle, "key"), cmd.replace)
           /\ \A i \in DOMAIN Program(cmd) :
                 LET r == Program(cmd)[i] IN
                 \/ i = 1
                 \/ i = 2 /\ r = Upload(<<"cert", cmd.name>>, Piece(cmd.bundle, "certificate"), cmd.replace)
                 \/ cmd.chain /\ r = Upload(<<"cert", ChainName[cmd.name]>>, Piece(cmd.bundle, "chain"), cmd.replace)
                 \/ r = WriteMemory
  <1> DEFINE key == Upload(<<"key", cmd.name>>, Piece(cmd.bundle, "key"), cmd.replace)
             cert == Upload(<<"cert", cmd.name>>, Piece(cmd.bundle, "certificate"), cmd.replace)
             chain == Upload(<<"cert", ChainName[cmd.name]>>, Piece(cmd.bundle, "chain"), cmd.replace)
             third == Only(cmd.chain, chain)
             last == Only(cmd.write, WriteMemory)
  <1>1. /\ cmd.name \in DOMAIN ChainName /\ cmd.bundle \in Bundles
        /\ cmd.chain \in BOOLEAN /\ cmd.replace \in BOOLEAN /\ cmd.write \in BOOLEAN
    BY DEF Command
  <1>2. cmd.name \in Names /\ ChainName[cmd.name] \in Names
    BY <1>1, NamingAssumption
  <1>3. \A part \in {"certificate", "key", "chain"} : Piece(cmd.bundle, part) \in Content
    BY <1>1 DEF Piece, Content
  <1>4. key \in Message /\ cert \in Message /\ chain \in Message /\ WriteMemory \in Message
    BY <1>1, <1>2, <1>3, NameTyped DEF Message, Upload
  <1> HIDE DEF key, cert, chain
  <1>5. third \in Seq(Message) /\ \A i \in DOMAIN third : cmd.chain /\ third[i] = chain
    BY <1>1, <1>4, OnlyElement
  <1>6. last \in Seq(Message) /\ \A i \in DOMAIN last : last[i] = WriteMemory
    BY <1>1, <1>4, OnlyElement
  <1>7. Program(cmd) = (<<key, cert>> \o third) \o last
    BY DEF Program, Changes, Uploads, key, cert, chain
  <1> HIDE DEF third, last
  <1>8. <<key, cert>> \in Seq(Message) /\ <<key, cert>> \o third \in Seq(Message)
    BY <1>4, <1>5, ConcatProperties
  <1>9. Program(cmd) \in Seq(Message)
    BY <1>6, <1>7, <1>8, ConcatProperties
  <1>10. Program(cmd)[1] = key
    <2>1. Len(<<key, cert>>) = 2 /\ <<key, cert>>[1] = key
      OBVIOUS
    <2>2. (<<key, cert>> \o third)[1] = key /\ Len(<<key, cert>> \o third) >= 2
      BY <2>1, <1>5, <1>8, ConcatProperties
    <2> QED BY <2>2, <1>6, <1>7, <1>8, ConcatProperties
  <1>11. ASSUME NEW i \in DOMAIN Program(cmd)
         PROVE  \/ i = 1
                \/ i = 2 /\ Program(cmd)[i] = cert
                \/ cmd.chain /\ Program(cmd)[i] = chain
                \/ Program(cmd)[i] = WriteMemory
    <2>1. \/ i - Len(<<key, cert>> \o third) \in DOMAIN last
             /\ Program(cmd)[i] = last[i - Len(<<key, cert>> \o third)]
          \/ i \in DOMAIN (<<key, cert>> \o third) /\ Program(cmd)[i] = (<<key, cert>> \o third)[i]
      BY <1>6, <1>7, <1>8, ConcatElement
    <2>2. CASE Program(cmd)[i] = WriteMemory
      BY <2>2
    <2>3. CASE i \in DOMAIN (<<key, cert>> \o third) /\ Program(cmd)[i] = (<<key, cert>> \o third)[i]
      <3>1. \/ i \in DOMAIN <<key, cert>> /\ Program(cmd)[i] = <<key, cert>>[i]
            \/ i - 2 \in DOMAIN third /\ Program(cmd)[i] = third[i - 2]
        <4>1. Len(<<key, cert>>) = 2
          OBVIOUS
        <4> QED BY <2>3, <4>1, <1>5, <1>8, ConcatElement
      <3>2. i \in DOMAIN <<key, cert>> => i = 1 \/ i = 2
        OBVIOUS
      <3>3. <<key, cert>>[2] = cert
        OBVIOUS
      <3> QED BY <3>1, <3>2, <3>3, <1>5
    <2> QED BY <2>1, <2>2, <2>3, <1>6
  <1> QED BY <1>9, <1>10, <1>11 DEF key, cert, chain

(* The requests of a delete. *)
LEMMA DeleteElement ==
    ASSUME NEW cmd \in Command, cmd.do = "delete"
    PROVE  /\ Program(cmd) \in Seq(Message)
           /\ \A i \in DOMAIN Program(cmd) :
                 LET r == Program(cmd)[i] IN
                 \/ r = Delete(Material(cmd))
                 \/ r = Delete({<<"cert", cmd.chain>>})
                 \/ r = Usage
                 \/ r = WriteMemory
  <1> DEFINE material == Only(Material(cmd) # {}, Delete(Material(cmd)))
             chain == Only(cmd.chain # NoName, Delete({<<"cert", cmd.chain>>}))
             usage == Only(Material(cmd) = {} /\ cmd.chain = NoName, Usage)
             last == Only(cmd.write, WriteMemory)
  <1>1. /\ cmd.cert \in Names \cup {NoName} /\ cmd.key \in Names \cup {NoName}
        /\ cmd.chain \in Names \cup {NoName} /\ cmd.ca \in Names \cup {NoName}
        /\ cmd.write \in BOOLEAN
    BY DEF Command
  <1>2. Material(cmd) \subseteq Stored
    BY <1>1 DEF Material, Stored, File
  <1>3. Delete(Material(cmd)) \in Message /\ Usage \in Message /\ WriteMemory \in Message
    BY <1>2 DEF Delete, Message
  <1>4. cmd.chain # NoName => Delete({<<"cert", cmd.chain>>}) \in Message
    BY <1>1 DEF Delete, Message, Stored, File
  <1>5. material \in Seq(Message) /\ \A i \in DOMAIN material : material[i] = Delete(Material(cmd))
    BY <1>3, OnlyElement
  <1>6. chain \in Seq(Message) /\ \A i \in DOMAIN chain : chain[i] = Delete({<<"cert", cmd.chain>>})
    BY <1>4, OnlyElement
  <1>7. usage \in Seq(Message) /\ \A i \in DOMAIN usage : usage[i] = Usage
    BY <1>3, OnlyElement
  <1>8. last \in Seq(Message) /\ \A i \in DOMAIN last : last[i] = WriteMemory
    BY <1>1, <1>3, OnlyElement
  <1>9. Program(cmd) = ((material \o chain) \o usage) \o last
    BY DEF Program, Changes, Deletions
  <1> HIDE DEF material, chain, usage, last
  <1>10. /\ material \o chain \in Seq(Message)
         /\ (material \o chain) \o usage \in Seq(Message)
         /\ Program(cmd) \in Seq(Message)
    <2>1. material \o chain \in Seq(Message)
      BY <1>5, <1>6, ConcatProperties
    <2>2. (material \o chain) \o usage \in Seq(Message)
      BY <2>1, <1>7, ConcatProperties
    <2>3. Program(cmd) \in Seq(Message)
      BY <2>2, <1>8, <1>9, ConcatProperties
    <2> QED BY <2>1, <2>2, <2>3
  <1>11. ASSUME NEW i \in DOMAIN Program(cmd)
         PROVE  \/ Program(cmd)[i] = Delete(Material(cmd))
                \/ Program(cmd)[i] = Delete({<<"cert", cmd.chain>>})
                \/ Program(cmd)[i] = Usage
                \/ Program(cmd)[i] = WriteMemory
    <2>1. \/ Program(cmd)[i] = WriteMemory
          \/ \E j \in DOMAIN ((material \o chain) \o usage) :
                Program(cmd)[i] = ((material \o chain) \o usage)[j]
      BY <1>8, <1>9, <1>10, ConcatElement
    <2>2. ASSUME NEW j \in DOMAIN ((material \o chain) \o usage)
          PROVE  \/ ((material \o chain) \o usage)[j] = Usage
                 \/ \E k \in DOMAIN (material \o chain) :
                       ((material \o chain) \o usage)[j] = (material \o chain)[k]
      BY <1>7, <1>10, ConcatElement
    <2>3. ASSUME NEW k \in DOMAIN (material \o chain)
          PROVE  \/ (material \o chain)[k] = Delete(Material(cmd))
                 \/ (material \o chain)[k] = Delete({<<"cert", cmd.chain>>})
      <3>1. \/ k \in DOMAIN material /\ (material \o chain)[k] = material[k]
            \/ k - Len(material) \in DOMAIN chain /\ (material \o chain)[k] = chain[k - Len(material)]
        BY <1>5, <1>6, ConcatElement
      <3> QED BY <3>1, <1>5, <1>6
    <2> QED BY <2>1, <2>2, <2>3
  <1> QED BY <1>10, <1>11

(* The other commands make one request of their own at most. *)
LEMMA OtherElement ==
    ASSUME NEW cmd \in Command, cmd.do \notin {"import", "delete"}
    PROVE  /\ Program(cmd) \in Seq(Message)
           /\ \A i \in DOMAIN Program(cmd) : Program(cmd)[i].op \in {"bind", "unbind", "read", "write"}
  <1> DEFINE Harmless == {r \in Message : r.op \in {"bind", "unbind", "read", "write"}}
             first == Changes(cmd)
             last == Only(cmd.write, WriteMemory)
  <1>1. cmd.write \in BOOLEAN
    BY DEF Command
  <1>2. cmd.do = "bind" => Bind(cmd.tmpl, cmd.binding) \in Harmless
    BY DEF Command, Bind, Message
  <1>3. cmd.do = "unbind" => Unbind(cmd.tmpl, cmd.cert) \in Harmless
    BY DEF Command, Unbind, Message
  <1>4. ReadOnly \in Harmless /\ WriteMemory \in Harmless
    BY DEF ReadOnly, WriteMemory, Message
  <1> HIDE DEF Harmless
  <1>5. first \in Seq(Harmless)
    BY <1>2, <1>3, <1>4 DEF Changes
  <1>6. last \in Seq(Harmless)
    BY <1>1, <1>4, OnlyElement
  <1>7. Program(cmd) = first \o last
    BY DEF Program
  <1> HIDE DEF first, last
  <1>8. Program(cmd) \in Seq(Harmless)
    BY <1>5, <1>6, <1>7, ConcatProperties
  <1>9. Program(cmd) \in Seq(Message) /\ \A i \in DOMAIN Program(cmd) : Program(cmd)[i] \in Harmless
    <2>1. Harmless \subseteq Message
      BY DEF Harmless
    <2>2. \A i \in DOMAIN Program(cmd) : Program(cmd)[i] \in Harmless
      BY <1>8
    <2>3. Program(cmd) \in Seq(Message)
      BY <1>8, <2>1, <2>2, SeqDef
    <2> QED BY <2>2, <2>3
  <1> QED BY <1>9 DEF Harmless

LEMMA ProgramTyped ==
    ASSUME NEW cmd \in Command
    PROVE  Program(cmd) \in Seq(Message)
  BY ImportElement, DeleteElement, OtherElement

----------------------------------------------------------------------------
(* Type correctness. *)

LEMMA ScriptTyped ==
    ASSUME NEW s \in Shells, NEW i \in DOMAIN Scripts[s]
    PROVE  Scripts[s][i] \in Command /\ Scripts[s][i] \in Issued
  <1>1. Scripts[s] \in Seq(Command)
    BY ScriptAssumption
  <1> QED BY <1>1 DEF Issued

LEMMA RequestTyped ==
    ASSUME TypeOK, NEW s \in Shells, pc[s] = "work"
    PROVE  /\ Cmd(s) \in Command
           /\ Cmd(s) \in Issued
           /\ step[s] \in DOMAIN Program(Cmd(s))
           /\ Program(Cmd(s))[step[s]] \in Message
  <1>1. Cmd(s) \in Command /\ Cmd(s) \in Issued
    BY ScriptTyped DEF TypeOK, Cmd
  <1>2. step[s] \in DOMAIN Program(Cmd(s))
    BY DEF TypeOK
  <1> QED BY <1>1, <1>2, ProgramTyped

LEMMA PartsTyped ==
    ASSUME NEW r \in Message
    PROVE  Parts(r) \subseteq Message
  <1>1. CASE r.op = "delete"
    <2>1. r.files \subseteq Stored
      BY <1>1 DEF Message, WriteMemory, ReadOnly, Usage
    <2> QED BY <1>1, <2>1 DEF Parts, Delete, Message
  <1>2. CASE r.op # "delete"
    BY <1>2 DEF Parts
  <1> QED BY <1>1, <1>2

LEMMA ResultsTyped ==
    ASSUME NEW config \in Config, NEW r \in Message
    PROVE  Results(config, r) \subseteq Config
  <1>0. config.tmpl \in [Templates -> Template] /\ config.files \in [Stored -> Content \cup {Absent}]
    BY DEF Config
  <1>1. CASE r.op = "upload"
    <2>1. r.file \in Stored /\ r.content \in Content
      BY <1>1 DEF Message, WriteMemory, ReadOnly, Usage
    <2>2. [config EXCEPT !.files[r.file] = r.content] \in Config
      BY <1>0, <2>1 DEF Config
    <2> QED BY <1>1, <2>2 DEF Results
  <1>2. CASE r.op = "bind"
    <2>1. r.tmpl \in Templates /\ r.binding \in Binding
      BY <1>2 DEF Message, WriteMemory, ReadOnly, Usage
    <2>2. ASSUME NEW rest \in SUBSET Binding
          PROVE  [config EXCEPT !.tmpl[r.tmpl].certs = rest \cup {r.binding}] \in Config
      BY <1>0, <2>1 DEF Config, Template
    <2>3. {b \in config.tmpl[r.tmpl].certs : b.cert # r.binding.cert} \in SUBSET Binding
      BY <1>0, <2>1 DEF Template
    <2> QED BY <1>2, <2>2, <2>3 DEF Results
  <1>3. CASE r.op = "unbind"
    <2>1. r.tmpl \in Templates
      BY <1>3 DEF Message, WriteMemory, ReadOnly, Usage
    <2>2. WithoutCertificate(config.tmpl[r.tmpl], r.cert) \in Template
      BY <1>0, <2>1 DEF WithoutCertificate, Template
    <2>3. [config EXCEPT !.tmpl[r.tmpl] = WithoutCertificate(@, r.cert)] \in Config
      BY <1>0, <2>1, <2>2 DEF Config
    <2> QED BY <1>3, <2>3 DEF Results
  <1>4. CASE r.op = "delete"
    <2>1. [config EXCEPT !.files = [f \in Stored |-> IF f \in r.files THEN Absent ELSE @[f]]] \in Config
      BY <1>0 DEF Config
    <2> QED BY <1>4, <2>1 DEF Results
  <1>5. CASE r.op \in {"write", "read", "usage"}
    BY <1>5 DEF Results
  <1>6. r.op \in {"upload", "bind", "unbind", "delete", "write", "read", "usage"}
    BY DEF Message, WriteMemory, ReadOnly, Usage
  <1> QED BY <1>1, <1>2, <1>3, <1>4, <1>5, <1>6

LEMMA ProcessTyped ==
    ASSUME running \in Config, startup \in Config, NEW r \in Message, Process(r)
    PROVE  running' \in Config /\ startup' \in Config
  BY ResultsTyped DEF Process

(* A program begins with its first request, and only status reads a        *)
(* template.                                                               *)
Flow ==
    \A s \in Shells :
        /\ pc[s] \in {"auth", "version"} => step[s] = 1
        /\ pc[s] = "template" => Cmd(s).do = "status"

TypeInv == TypeOK /\ Flow

LEMMA NothingSeenTyped ==
    NothingSeen \in [tmpl : Template, binding : Binding \cup {NoBinding}, missing : BOOLEAN]
  BY DEF NothingSeen, Template

LEMMA StartTyped ==
    ASSUME NEW s \in Shells, Cmd(s) \in Command
    PROVE  Start(s) \in {"work", "close"} /\ (Start(s) = "work" => 1 \in DOMAIN Program(Cmd(s)))
  <1>1. Program(Cmd(s)) \in Seq(Message)
    BY ProgramTyped
  <1>2. CASE Program(Cmd(s)) = <<>>
    BY <1>2 DEF Start
  <1>3. CASE Program(Cmd(s)) # <<>>
    BY <1>1, <1>3 DEF Start
  <1> QED BY <1>2, <1>3

LEMMA InitTyped == Init => TypeInv
  <1> SUFFICES ASSUME Init PROVE TypeInv
    OBVIOUS
  <1>1. TypeOK
    <2>1. running \in Config /\ startup \in Config /\ supported \in BOOLEAN
      BY ConfigAssumption, ReleaseAssumption DEF Init
    <2>2. seen \in [Shells -> [tmpl : Template, binding : Binding \cup {NoBinding}, missing : BOOLEAN]]
      BY NothingSeenTyped DEF Init
    <2>3. /\ pc \in [Shells -> Labels] /\ exit \in [Shells -> {"none", "zero", "failed"}]
          /\ failed \in [Shells -> BOOLEAN] /\ late \in [Shells -> SUBSET Message]
          /\ line \in [Shells -> Nat \ {0}] /\ step \in [Shells -> Nat \ {0}]
          /\ used \in [Budget -> Nat] /\ sessions \subseteq Shells /\ stray \subseteq Message
      BY DEF Init, Labels
    <2>4. \A s \in Shells : pc[s] = "idle"
      BY DEF Init
    <2> QED BY <2>1, <2>2, <2>3, <2>4 DEF TypeOK
  <1>2. Flow
    BY DEF Init, Flow
  <1> QED BY <1>1, <1>2 DEF TypeInv

LEMMA SpendTyped ==
    ASSUME used \in [Budget -> Nat], NEW b \in Budget, Spend(b)
    PROVE  used' \in [Budget -> Nat]
  BY DEF Spend

LEMMA BreaksTyped ==
    ASSUME used \in [Budget -> Nat], NEW s \in Shells, Breaks(s)
    PROVE  used' \in [Budget -> Nat]
  BY SpendTyped DEF Breaks, Budget

LEMMA BeginTyped == ASSUME TypeInv, NEW s \in Shells, Begin(s) PROVE TypeInv'
  <1>1. Scripts[s] \in Seq(Command) /\ line[s] \in Nat \ {0}
    BY ScriptAssumption DEF TypeInv, TypeOK
  <1>2. line[s] \in DOMAIN Scripts[s]
    BY <1>1 DEF Begin
  <1>3. seen' \in [Shells -> [tmpl : Template, binding : Binding \cup {NoBinding}, missing : BOOLEAN]]
    BY NothingSeenTyped DEF TypeInv, TypeOK, Begin
  <1>4. TypeOK'
    BY <1>2, <1>3 DEF TypeInv, TypeOK, Begin, Goto, Labels, Cmd
  <1>5. Flow'
    BY DEF TypeInv, TypeOK, Flow, Begin, Goto, Cmd
  <1> QED BY <1>4, <1>5 DEF TypeInv

LEMMA StartSessionTyped == ASSUME TypeInv, NEW s \in Shells, StartSession(s) PROVE TypeInv'
  <1>1. Cmd(s) \in Command /\ pc[s] = "auth" /\ step[s] = 1
    BY ScriptTyped DEF TypeInv, TypeOK, Flow, StartSession, Cmd
  <1>2. CASE Spend("fault") /\ Exit(s, "failed") /\ UNCHANGED sessions
    <2>1. used' \in [Budget -> Nat]
      BY <1>2, SpendTyped DEF TypeInv, TypeOK, Budget
    <2>2. TypeOK'
      BY <1>2, <2>1 DEF TypeInv, TypeOK, StartSession, Exit, Goto, Labels, Cmd
    <2>3. Flow'
      BY <1>2 DEF TypeInv, TypeOK, Flow, StartSession, Exit, Goto, Cmd
    <2> QED BY <2>2, <2>3 DEF TypeInv
  <1>3. CASE /\ sessions' = sessions \cup {s}
             /\ Goto(s, IF Compatible(Cmd(s)) THEN "version"
                        ELSE IF Cmd(s).do = "status" THEN "template" ELSE Start(s))
             /\ UNCHANGED <<line, exit, used>>
    <2>1. Start(s) \in {"work", "close"} /\ (Start(s) = "work" => 1 \in DOMAIN Program(Cmd(s)))
      BY <1>1, StartTyped
    <2>2. \A q \in Shells : Cmd(q)' = Cmd(q)
      BY <1>3 DEF Cmd
    <2>3. pc'[s] \in {"version", "template", "work", "close"}
      BY <1>3, <2>1 DEF Goto, TypeInv, TypeOK
    <2>4. pc' = [pc EXCEPT ![s] = pc'[s]]
      BY <1>3 DEF Goto, TypeInv, TypeOK
    <2>5. pc'[s] = "work" => 1 \in DOMAIN Program(Cmd(s))
      BY <1>3, <2>1 DEF Goto, TypeInv, TypeOK
    <2>6. pc'[s] = "template" => Cmd(s).do = "status"
      BY <1>3, <2>1 DEF Goto, TypeInv, TypeOK
    <2>7. TypeOK'
      BY <1>1, <1>3, <2>2, <2>3, <2>4, <2>5 DEF TypeInv, TypeOK, StartSession, Labels
    <2>8. Flow'
      BY <1>1, <1>3, <2>2, <2>3, <2>4, <2>6 DEF TypeInv, TypeOK, Flow, StartSession
    <2> QED BY <2>7, <2>8 DEF TypeInv
  <1> QED BY <1>2, <1>3 DEF StartSession

(* A failing request leaves for the deferred Close. *)
LEMMA FailTyped ==
    ASSUME TypeInv, NEW s \in Shells, pc[s] # "idle", Fail(s),
           running' \in Config, startup' \in Config, supported' \in BOOLEAN,
           sessions' \subseteq Shells, late' \in [Shells -> SUBSET Message], stray' \subseteq Message,
           seen' \in [Shells -> [tmpl : Template, binding : Binding \cup {NoBinding}, missing : BOOLEAN]],
           used' \in [Budget -> Nat], UNCHANGED <<line, step, exit>>
    PROVE  TypeInv'
  <1>1. TypeOK'
    BY DEF TypeInv, TypeOK, Fail, Goto, Labels, Cmd
  <1>2. Flow'
    BY DEF TypeInv, TypeOK, Flow, Fail, Goto, Cmd
  <1> QED BY <1>1, <1>2 DEF TypeInv

LEMMA VerifyTyped == ASSUME TypeInv, NEW s \in Shells, VerifyCompatibility(s) PROVE TypeInv'
  <1>1. Cmd(s) \in Command /\ pc[s] = "version" /\ step[s] = 1
    BY ScriptTyped DEF TypeInv, TypeOK, Flow, VerifyCompatibility, Cmd
  <1>2. CASE s \in sessions /\ supported /\ Goto(s, Start(s)) /\ UNCHANGED <<failed, used>>
    <2>1. Start(s) \in {"work", "close"} /\ (Start(s) = "work" => 1 \in DOMAIN Program(Cmd(s)))
      BY <1>1, StartTyped
    <2>2. \A q \in Shells : Cmd(q)' = Cmd(q)
      BY DEF VerifyCompatibility, Cmd
    <2>3. TypeOK'
      BY <1>1, <1>2, <2>1, <2>2 DEF TypeInv, TypeOK, VerifyCompatibility, Goto, Labels, appliance
    <2>4. Flow'
      BY <1>1, <1>2, <2>1, <2>2 DEF TypeInv, TypeOK, Flow, VerifyCompatibility, Goto
    <2> QED BY <2>3, <2>4 DEF TypeInv
  <1>3. CASE Fail(s) /\ used' \in [Budget -> Nat]
    BY <1>1, <1>3, FailTyped DEF TypeInv, TypeOK, VerifyCompatibility, appliance
  <1>4. Breaks(s) => used' \in [Budget -> Nat]
    BY BreaksTyped DEF TypeInv, TypeOK
  <1> QED BY <1>2, <1>3, <1>4 DEF VerifyCompatibility, TypeInv, TypeOK

(* The answers to a request of the program: carried out, refused, lost. *)
Carried(s) ==
    LET r == Program(Cmd(s))[step[s]] IN
    /\ s \in sessions
    /\ Process(r)
    /\ Goto(s, IF step[s] = Len(Program(Cmd(s))) THEN "close" ELSE "work")
    /\ step' = [step EXCEPT ![s] = @ + 1]
    /\ UNCHANGED <<late, failed, used>>

Lost(s) ==
    /\ Breaks(s)
    /\ Fail(s)
    /\ late' = [late EXCEPT ![s] = IF s \in sessions THEN Parts(Program(Cmd(s))[step[s]]) ELSE @]
    /\ UNCHANGED <<running, startup, step>>

LEMMA RequestCases ==
    ASSUME NEW s \in Shells, Request(s)
    PROVE  /\ pc[s] = "work"
           /\ UNCHANGED <<supported, sessions, stray, line, seen, exit>>
           /\ \/ Carried(s)
              \/ Fail(s) /\ UNCHANGED <<running, startup, late, step, used>>
              \/ Lost(s)
  BY DEF Request, Carried, Lost

LEMMA RequestStepTyped == ASSUME TypeInv, NEW s \in Shells, Request(s) PROVE TypeInv'
  <1> DEFINE r == Program(Cmd(s))[step[s]]
  <1>1. /\ pc[s] = "work" /\ Cmd(s) \in Command /\ step[s] \in DOMAIN Program(Cmd(s)) /\ r \in Message
        /\ Program(Cmd(s)) \in Seq(Message)
    BY RequestCases, RequestTyped, ProgramTyped DEF TypeInv
  <1> HIDE DEF r
  <1>2. CASE Carried(s)
    <2>1. running' \in Config /\ startup' \in Config
      BY <1>1, <1>2, ProcessTyped DEF Carried, TypeInv, TypeOK, r
    <2>2. \A q \in Shells : Cmd(q)' = Cmd(q)
      BY RequestCases DEF Cmd
    <2>3. step[s] # Len(Program(Cmd(s))) => step[s] + 1 \in DOMAIN Program(Cmd(s))
      BY <1>1
    <2>4. step' = [step EXCEPT ![s] = step[s] + 1] /\ step[s] + 1 \in Nat \ {0}
      BY <1>2 DEF Carried, TypeInv, TypeOK
    <2>5. TypeOK'
      <3>1. pc' \in [Shells -> Labels] /\ step' \in [Shells -> Nat \ {0}]
        BY <1>2, <2>4 DEF Carried, TypeInv, TypeOK, Goto, Labels
      <3>2. ASSUME NEW q \in Shells
            PROVE  /\ pc'[q] # "idle" => line'[q] \in DOMAIN Scripts[q]
                   /\ pc'[q] = "work" => step'[q] \in DOMAIN Program(Cmd(q)')
        <4>1. CASE q = s
          <5>1. line'[q] \in DOMAIN Scripts[q]
            BY <1>1, <4>1, RequestCases DEF TypeInv, TypeOK
          <5>2. step'[q] = step[s] + 1
            BY <2>4, <4>1 DEF TypeInv, TypeOK
          <5>3. pc'[q] = "work" => step[s] # Len(Program(Cmd(s)))
            BY <1>2, <4>1 DEF Carried, Goto, TypeInv, TypeOK
          <5> QED BY <2>2, <2>3, <4>1, <5>1, <5>2, <5>3
        <4>2. CASE q # s
          <5>1. pc'[q] = pc[q] /\ step'[q] = step[q] /\ line'[q] = line[q]
            BY <1>2, <2>4, <4>2, RequestCases DEF Carried, Goto, TypeInv, TypeOK
          <5> QED BY <2>2, <5>1 DEF TypeInv, TypeOK
        <4> QED BY <4>1, <4>2
      <3> QED BY <1>2, <2>1, <3>1, <3>2, RequestCases DEF Carried, TypeInv, TypeOK
    <2>6. Flow'
      BY <1>1, <1>2, <2>2, <2>4, RequestCases DEF Carried, TypeInv, TypeOK, Flow, Goto
    <2> QED BY <2>5, <2>6 DEF TypeInv
  <1>3. CASE Fail(s) /\ UNCHANGED <<running, startup, late, step, used>>
    BY <1>1, <1>3, FailTyped, RequestCases DEF TypeInv, TypeOK
  <1>4. CASE Lost(s)
    <2>1. used' \in [Budget -> Nat]
      BY <1>4, BreaksTyped DEF Lost, TypeInv, TypeOK
    <2>2. Parts(r) \subseteq Message
      BY <1>1, PartsTyped
    <2>3. late' \in [Shells -> SUBSET Message]
      BY <1>4, <2>2 DEF Lost, TypeInv, TypeOK, r
    <2>4. /\ pc[s] # "idle" /\ Fail(s)
          /\ running' \in Config /\ startup' \in Config /\ supported' \in BOOLEAN
          /\ sessions' \subseteq Shells
          /\ seen' \in [Shells -> [tmpl : Template, binding : Binding \cup {NoBinding}, missing : BOOLEAN]]
      BY <1>1, <1>4, RequestCases DEF Lost, TypeInv, TypeOK
    <2>5. UNCHANGED <<line, step, exit>>
      BY <1>4, RequestCases DEF Lost
    <2>6. stray' \subseteq Message
      BY RequestCases DEF TypeInv, TypeOK
    <2> QED BY <2>1, <2>3, <2>4, <2>5, <2>6, FailTyped
  <1> QED BY <1>2, <1>3, <1>4, RequestCases

(* A command that ends leaves its shell at the prompt. *)
LEMMA ExitTyped ==
    ASSUME TypeInv, NEW s \in Shells, NEW code \in {"zero", "failed"}, Exit(s, code),
           sessions' \subseteq Shells, late' \in [Shells -> SUBSET Message], stray' \subseteq Message,
           used' \in [Budget -> Nat],
           UNCHANGED <<running, startup, supported, step, seen, failed>>
    PROVE  TypeInv'
  <1>1. /\ pc' = [pc EXCEPT ![s] = "idle"]
        /\ exit' = [exit EXCEPT ![s] = code]
        /\ line' \in [Shells -> Nat \ {0}]
        /\ \A q \in Shells \ {s} : line'[q] = line[q] /\ Cmd(q)' = Cmd(q)
    BY DEF Exit, Goto, TypeInv, TypeOK, Cmd
  <1>2. TypeOK'
    <2>1. pc' \in [Shells -> Labels] /\ exit' \in [Shells -> {"none", "zero", "failed"}]
      BY <1>1 DEF TypeInv, TypeOK, Labels
    <2>2. ASSUME NEW q \in Shells
          PROVE  /\ pc'[q] # "idle" => line'[q] \in DOMAIN Scripts[q]
                 /\ pc'[q] = "work" => step'[q] \in DOMAIN Program(Cmd(q)')
      <3>1. CASE q = s
        BY <1>1, <3>1 DEF TypeInv, TypeOK
      <3>2. CASE q # s
        BY <1>1, <3>2 DEF TypeInv, TypeOK
      <3> QED BY <3>1, <3>2
    <2> QED BY <1>1, <2>1, <2>2 DEF TypeInv, TypeOK
  <1>3. Flow'
    BY <1>1 DEF TypeInv, TypeOK, Flow
  <1> QED BY <1>2, <1>3 DEF TypeInv

LEMMA CloseTyped == ASSUME TypeInv, NEW s \in Shells, Close(s) PROVE TypeInv'
  <1>1. CASE /\ s \in sessions
             /\ sessions' = sessions \ {s}
             /\ late' = [late EXCEPT ![s] = {}]
             /\ Exit(s, IF failed[s] THEN "failed" ELSE "zero")
             /\ UNCHANGED used
    <2>1. \E code \in {"zero", "failed"} : Exit(s, code)
      BY <1>1
    <2> QED BY <1>1, <2>1, ExitTyped DEF Close, TypeInv, TypeOK
  <1>2. CASE Breaks(s) /\ Exit(s, "failed") /\ UNCHANGED <<sessions, late>>
    <2>1. used' \in [Budget -> Nat]
      BY <1>2, BreaksTyped DEF TypeInv, TypeOK
    <2> QED BY <1>2, <2>1, ExitTyped DEF Close, TypeInv, TypeOK
  <1> QED BY <1>1, <1>2 DEF Close

LEMMA KillTyped == ASSUME TypeInv, NEW s \in Shells, Kill(s) PROVE TypeInv'
  <1>1. used' \in [Budget -> Nat]
    BY SpendTyped DEF Kill, TypeInv, TypeOK, Budget
  <1>2. pc[s] = "work" => Parts(Program(Cmd(s))[step[s]]) \subseteq Message
    BY RequestTyped, PartsTyped DEF TypeInv
  <1>3. late' \in [Shells -> SUBSET Message]
    BY <1>2 DEF Kill, TypeInv, TypeOK
  <1> QED BY <1>1, <1>3, ExitTyped DEF Kill, TypeInv, TypeOK

LEMMA LookCases ==
    ASSUME TypeInv, NEW s \in Shells, NEW label \in Labels, Blind(s, label)
    PROVE  TypeInv' \/ pc[s] = "idle"
  <1>1. used' \in [Budget -> Nat]
    BY BreaksTyped DEF Blind, TypeInv, TypeOK
  <1> QED BY <1>1, FailTyped DEF Blind, TypeInv, TypeOK, appliance

LEMMA ReadTemplateTyped == ASSUME TypeInv, NEW s \in Shells, ReadTemplate(s) PROVE TypeInv'
  <1> DEFINE t == running.tmpl[Cmd(s).tmpl]
             choice == SelectTarget(t, Cmd(s).current)
  <1>1. pc[s] = "template"
    BY DEF ReadTemplate, Blind
  <1>2. Cmd(s) \in Command /\ Cmd(s).do = "status"
    BY <1>1, ScriptTyped DEF TypeInv, TypeOK, Flow, Cmd
  <1>3. t \in Template
    <2>1. Cmd(s).tmpl \in Templates
      BY <1>2 DEF Command
    <2> QED BY <2>1 DEF TypeInv, TypeOK, Config
  <1>4. choice \subseteq Binding \cup {NoBinding}
    BY <1>3 DEF SelectTarget, Template
  <1> HIDE DEF t, choice
  <1>5. CASE Blind(s, "template")
    BY <1>1, <1>5, LookCases DEF Labels
  <1>6. CASE Look(s) /\ choice = {} /\ Fail(s) /\ UNCHANGED seen
    BY <1>1, <1>6, FailTyped DEF Look, TypeInv, TypeOK, appliance
  <1>7. CASE /\ Look(s)
             /\ \E b \in choice :
                   /\ seen' = [seen EXCEPT ![s].tmpl = t, ![s].binding = b]
                   /\ Goto(s, IF b = NoBinding THEN "close" ELSE "certificate")
             /\ UNCHANGED failed
    <2>1. PICK b \in choice :
             /\ seen' = [seen EXCEPT ![s].tmpl = t, ![s].binding = b]
             /\ Goto(s, IF b = NoBinding THEN "close" ELSE "certificate")
      BY <1>7
    <2>2. seen' \in [Shells -> [tmpl : Template, binding : Binding \cup {NoBinding}, missing : BOOLEAN]]
      BY <1>3, <1>4, <2>1 DEF TypeInv, TypeOK
    <2>3. TypeOK'
      BY <1>1, <1>7, <2>1, <2>2 DEF Look, TypeInv, TypeOK, Goto, Labels, Cmd, appliance
    <2>4. Flow'
      BY <1>7, <2>1 DEF Look, TypeInv, TypeOK, Flow, Goto, Cmd, appliance
    <2> QED BY <2>3, <2>4 DEF TypeInv
  <1> QED BY <1>5, <1>6, <1>7 DEF ReadTemplate, t, choice

LEMMA FindTyped ==
    ASSUME TypeInv, NEW s \in Shells, NEW file, NEW next \in {"key", "close"},
           pc[s] # "idle", Find(s, file, next)
    PROVE  TypeInv'
  <1>1. CASE Goto(s, next) /\ UNCHANGED <<seen, failed>>
    <2>1. TypeOK'
      BY <1>1 DEF Find, Look, TypeInv, TypeOK, Goto, Labels, Cmd, appliance
    <2>2. Flow'
      BY <1>1 DEF Find, Look, TypeInv, TypeOK, Flow, Goto, Cmd, appliance
    <2> QED BY <2>1, <2>2 DEF TypeInv
  <1>2. CASE seen' = [seen EXCEPT ![s].missing = TRUE] /\ Fail(s)
    <2>1. seen' \in [Shells -> [tmpl : Template, binding : Binding \cup {NoBinding}, missing : BOOLEAN]]
      BY <1>2 DEF TypeInv, TypeOK
    <2> QED BY <1>2, <2>1, FailTyped DEF Find, Look, TypeInv, TypeOK, appliance
  <1> QED BY <1>1, <1>2 DEF Find

LEMMA FindCertificateTyped == ASSUME TypeInv, NEW s \in Shells, FindCertificate(s) PROVE TypeInv'
  <1>1. pc[s] = "certificate"
    BY DEF FindCertificate, Blind
  <1> QED BY <1>1, FindTyped, LookCases DEF FindCertificate, Labels

LEMMA FindKeyTyped == ASSUME TypeInv, NEW s \in Shells, FindKey(s) PROVE TypeInv'
  <1>1. pc[s] = "key"
    BY DEF FindKey, Blind
  <1> QED BY <1>1, FindTyped, LookCases DEF FindKey, Labels

LEMMA LandTyped == ASSUME TypeInv, NEW s \in Shells, Land(s) PROVE TypeInv'
  <1>1. PICK r \in late[s] : Process(r) /\ late' = [late EXCEPT ![s] = @ \ {r}]
    BY DEF Land
  <1>2. r \in Message
    BY DEF TypeInv, TypeOK
  <1>3. running' \in Config /\ startup' \in Config
    BY <1>1, <1>2, ProcessTyped DEF TypeInv, TypeOK
  <1>4. TypeOK'
    BY <1>1, <1>3 DEF Land, TypeInv, TypeOK, Cmd
  <1>5. Flow'
    BY DEF Land, TypeInv, Flow, Cmd
  <1> QED BY <1>4, <1>5 DEF TypeInv

LEMMA LandStrayTyped == ASSUME TypeInv, LandStray PROVE TypeInv'
  <1>1. PICK r \in stray : Process(r) /\ stray' = stray \ {r}
    BY DEF LandStray
  <1>2. r \in Message
    BY DEF TypeInv, TypeOK
  <1>3. running' \in Config /\ startup' \in Config
    BY <1>1, <1>2, ProcessTyped DEF TypeInv, TypeOK
  <1>4. TypeOK'
    BY <1>1, <1>3 DEF LandStray, TypeInv, TypeOK, Cmd
  <1>5. Flow'
    BY DEF LandStray, TypeInv, Flow, Cmd
  <1> QED BY <1>4, <1>5 DEF TypeInv

LEMMA RebootTyped == ASSUME TypeInv, Reboot PROVE TypeInv'
  <1>1. used' \in [Budget -> Nat]
    BY SpendTyped DEF Reboot, TypeInv, TypeOK, Budget
  <1>2. TypeOK'
    BY <1>1, ReleaseAssumption DEF Reboot, TypeInv, TypeOK, Cmd
  <1>3. Flow'
    BY DEF Reboot, TypeInv, Flow, Cmd
  <1> QED BY <1>2, <1>3 DEF TypeInv

LEMMA NextTyped == ASSUME TypeInv, [Next]_vars PROVE TypeInv'
  <1>1. CASE Reboot
    BY <1>1, RebootTyped
  <1>2. CASE UNCHANGED vars
    BY <1>2 DEF TypeInv, TypeOK, Flow, Cmd, vars, appliance
  <1>3. ASSUME NEW s \in Shells, Run(s) PROVE TypeInv'
    BY <1>3, BeginTyped, StartSessionTyped, VerifyTyped, RequestStepTyped, CloseTyped,
       ReadTemplateTyped, FindCertificateTyped, FindKeyTyped DEF Run
  <1>4. ASSUME NEW s \in Shells, Kill(s) \/ Land(s) PROVE TypeInv'
    BY <1>4, KillTyped, LandTyped
  <1> QED BY <1>1, <1>2, <1>3, <1>4, LandStrayTyped DEF Next, Finished

(* Commands of any shells and scripts keep the types; no program is run    *)
(* beyond its last request, whatever fails, reboots or is killed.          *)
THEOREM TypeCorrect == Spec => []TypeOK
  <1>1. Init => TypeInv
    BY InitTyped
  <1>2. TypeInv /\ [Next]_vars => TypeInv'
    BY NextTyped
  <1>3. TypeInv => TypeOK
    BY DEF TypeInv
  <1> QED BY <1>1, <1>2, <1>3, PTL DEF Spec

----------------------------------------------------------------------------
(* The key comes first.                                                    *)

Pairs(config) == \A n \in Names : Immutable(n) => Paired(config, n)

(* Immutable keys that are there stay as they are. *)
KeysStay(before, after) ==
    \A n \in Names :
        Immutable(n) /\ before.files[<<"key", n>>] # Absent =>
            after.files[<<"key", n>>] = before.files[<<"key", n>>]

(* A request that spares immutable keys, and one whose certificate, if it  *)
(* uploads any, finds its key on the appliance.                            *)
Sparing(r) ==
    \A n \in Names : Immutable(n) =>
        /\ r.op = "upload" /\ r.file = <<"key", n>> => ~ r.replace
        /\ r.op = "delete" => <<"key", n>> \notin r.files

Backed(r, config) ==
    \A n \in Names : Immutable(n) /\ r.op = "upload" /\ r.file = <<"cert", n>> =>
        \E b \in Bundles :
            /\ r.content = Piece(b, "certificate")
            /\ config.files[<<"key", n>>] = Piece(b, "key")

(* An import past its first request, with a session, has its key there. *)
Importing(s) == pc[s] = "work" /\ step[s] # 1 /\ s \in sessions /\ Cmd(s).do = "import"

KeyInPlace(s) ==
    Importing(s) /\ Immutable(Cmd(s).name) =>
        running.files[<<"key", Cmd(s).name>>] = Piece(Cmd(s).bundle, "key")

PairInv ==
    /\ Pairs(running) /\ Pairs(startup)
    /\ \A s \in Shells :
          /\ KeyInPlace(s)
          /\ \A r \in late[s] : Sparing(r) /\ Backed(r, running)
    /\ \A r \in stray : Sparing(r) /\ Backed(r, running)

LEMMA PieceThere ==
    ASSUME NEW b \in Bundles, NEW part \in {"certificate", "key", "chain"}
    PROVE  Piece(b, part) # Absent
  BY AbsentAssumption DEF Piece, Content

LEMMA BackedStays ==
    ASSUME NEW r, NEW before, NEW after, Backed(r, before), KeysStay(before, after)
    PROVE  Backed(r, after)
  BY PieceThere DEF Backed, KeysStay

(* The key of a pair is there. *)
LEMMA PairedStays ==
    ASSUME NEW before, NEW after, Pairs(before), KeysStay(before, after),
           \A n \in Names : \/ after.files[<<"cert", n>>] = before.files[<<"cert", n>>]
                            \/ after.files[<<"cert", n>>] = Absent
    PROVE  Pairs(after)
  <1> SUFFICES ASSUME NEW n \in Names, Immutable(n), after.files[<<"cert", n>>] # Absent
               PROVE  \E b \in Bundles :
                         /\ after.files[<<"cert", n>>] = Piece(b, "certificate")
                         /\ after.files[<<"key", n>>] = Piece(b, "key")
    BY DEF Pairs, Paired
  <1>1. after.files[<<"cert", n>>] = before.files[<<"cert", n>>]
    OBVIOUS
  <1>2. PICK b \in Bundles : /\ before.files[<<"cert", n>>] = Piece(b, "certificate")
                             /\ before.files[<<"key", n>>] = Piece(b, "key")
    BY <1>1 DEF Pairs, Paired
  <1>3. after.files[<<"key", n>>] = before.files[<<"key", n>>]
    BY <1>2, PieceThere DEF KeysStay
  <1> QED BY <1>1, <1>2, <1>3

(* What a sparing, backed request makes of a configuration of pairs. *)
LEMMA ResultsPaired ==
    ASSUME NEW config \in Config, NEW r \in Message, Pairs(config), Sparing(r), Backed(r, config),
           NEW after \in Results(config, r)
    PROVE  Pairs(after) /\ KeysStay(config, after)
  <1>0. config.files \in [Stored -> Content \cup {Absent}]
    BY DEF Config
  <1>1. CASE r.op = "upload"
    <2>1. /\ r.file \in Stored
          /\ r.replace \/ config.files[r.file] = Absent
          /\ after.files = [config.files EXCEPT ![r.file] = r.content]
      BY <1>1 DEF Results, Message, WriteMemory, ReadOnly, Usage, Config
    <2>2. KeysStay(config, after)
      <3> SUFFICES ASSUME NEW n \in Names, Immutable(n), config.files[<<"key", n>>] # Absent
                   PROVE  after.files[<<"key", n>>] = config.files[<<"key", n>>]
        BY DEF KeysStay
      <3>1. r.file # <<"key", n>>
        BY <1>1, <2>1 DEF Sparing
      <3> QED BY <1>0, <2>1, <3>1, NameTyped
    <2>3. ASSUME NEW n \in Names, Immutable(n) PROVE Paired(after, n)
      <3>1. CASE r.file = <<"cert", n>>
        <4>1. PICK b \in Bundles : /\ r.content = Piece(b, "certificate")
                                   /\ config.files[<<"key", n>>] = Piece(b, "key")
          BY <1>1, <2>3, <3>1 DEF Backed
        <4>2. after.files[<<"key", n>>] = Piece(b, "key")
          BY <2>2, <2>3, <4>1, PieceThere DEF KeysStay
        <4>3. after.files[<<"cert", n>>] = Piece(b, "certificate")
          BY <1>0, <2>1, <3>1, <4>1, NameTyped
        <4> QED BY <4>2, <4>3 DEF Paired
      <3>2. CASE r.file # <<"cert", n>>
        <4>1. after.files[<<"cert", n>>] = config.files[<<"cert", n>>]
          BY <1>0, <2>1, <3>2, NameTyped
        <4>2. Paired(config, n)
          BY <2>3 DEF Pairs
        <4>3. CASE config.files[<<"cert", n>>] = Absent
          BY <4>1, <4>3 DEF Paired
        <4>4. CASE config.files[<<"cert", n>>] # Absent
          <5>1. PICK b \in Bundles : /\ config.files[<<"cert", n>>] = Piece(b, "certificate")
                                     /\ config.files[<<"key", n>>] = Piece(b, "key")
            BY <4>2, <4>4 DEF Paired
          <5>2. after.files[<<"key", n>>] = Piece(b, "key")
            BY <2>2, <2>3, <5>1, PieceThere DEF KeysStay
          <5> QED BY <4>1, <5>1, <5>2 DEF Paired
        <4> QED BY <4>3, <4>4
      <3> QED BY <3>1, <3>2
    <2> QED BY <2>2, <2>3 DEF Pairs
  <1>2. CASE r.op = "delete"
    <2>1. after.files = [f \in Stored |-> IF f \in r.files THEN Absent ELSE config.files[f]]
      BY <1>0, <1>2 DEF Results, Config
    <2>2. KeysStay(config, after)
      BY <1>2, <2>1, NameTyped DEF KeysStay, Sparing
    <2>3. \A n \in Names : \/ after.files[<<"cert", n>>] = config.files[<<"cert", n>>]
                           \/ after.files[<<"cert", n>>] = Absent
      BY <2>1, NameTyped
    <2> QED BY <2>2, <2>3, PairedStays
  <1>3. CASE r.op \in {"bind", "unbind", "write", "read", "usage"}
    <2>1. after.files = config.files
      BY <1>3 DEF Results, Config
    <2>2. KeysStay(config, after)
      BY <2>1 DEF KeysStay
    <2> QED BY <2>1, <2>2, PairedStays
  <1>4. r.op \in {"upload", "bind", "unbind", "delete", "write", "read", "usage"}
    BY DEF Message, WriteMemory, ReadOnly, Usage
  <1> QED BY <1>1, <1>2, <1>3, <1>4

(* The programs that are run spare the immutable keys, and upload the      *)
(* certificate of such a name only as the second request of its import.    *)
LEMMA ProgramSparing ==
    ASSUME NEW cmd \in Command, cmd \in Issued, NEW i \in DOMAIN Program(cmd)
    PROVE  /\ Sparing(Program(cmd)[i])
           /\ \A n \in Names :
                 Immutable(n) /\ Program(cmd)[i].op = "upload" /\ Program(cmd)[i].file = <<"cert", n>> =>
                    /\ i # 1 /\ cmd.do = "import" /\ cmd.name = n
                    /\ Program(cmd)[i].content = Piece(cmd.bundle, "certificate")
           /\ i = 1 /\ cmd.do = "import" =>
                 Program(cmd)[i] = Upload(<<"key", cmd.name>>, Piece(cmd.bundle, "key"), cmd.replace)
  <1> DEFINE r == Program(cmd)[i]
  <1>1. CASE cmd.do = "import"
    <2> DEFINE key == Upload(<<"key", cmd.name>>, Piece(cmd.bundle, "key"), cmd.replace)
               cert == Upload(<<"cert", cmd.name>>, Piece(cmd.bundle, "certificate"), cmd.replace)
               chain == Upload(<<"cert", ChainName[cmd.name]>>, Piece(cmd.bundle, "chain"), cmd.replace)
    <2>1. \/ i = 1 /\ r = key
          \/ i = 2 /\ r = cert
          \/ cmd.chain /\ r = chain
          \/ r = WriteMemory
      BY <1>1, ImportElement
    <2>2. i = 1 => r = key
      BY <1>1, ImportElement
    <2> HIDE DEF r
    <2>3. \A n \in Names : Immutable(n) =>
             ~ (cmd.name = n /\ cmd.replace) /\ ~ (cmd.chain /\ ChainName[cmd.name] = n)
      BY <1>1 DEF Immutable
    <2>4. Sparing(r)
      BY <2>1, <2>3 DEF Sparing, Upload, WriteMemory
    <2>5. \A n \in Names :
             Immutable(n) /\ r.op = "upload" /\ r.file = <<"cert", n>> =>
                /\ i # 1 /\ cmd.name = n
                /\ r.content = Piece(cmd.bundle, "certificate")
      <3> SUFFICES ASSUME NEW n \in Names, Immutable(n), r.op = "upload", r.file = <<"cert", n>>
                   PROVE  i # 1 /\ cmd.name = n /\ r.content = Piece(cmd.bundle, "certificate")
        OBVIOUS
      <3>1. r # key
        BY DEF Upload
      <3>2. r # WriteMemory
        BY DEF WriteMemory
      <3>3. cmd.chain => r # chain
        BY <2>3 DEF Upload
      <3>4. i = 2 /\ r = cert
        BY <2>1, <3>1, <3>2, <3>3
      <3> QED BY <3>4 DEF Upload
    <2> QED BY <1>1, <2>2, <2>4, <2>5 DEF r
  <1>2. CASE cmd.do = "delete"
    <2>1. \/ r = Delete(Material(cmd))
          \/ r = Delete({<<"cert", cmd.chain>>})
          \/ r = Usage
          \/ r = WriteMemory
      BY <1>2, DeleteElement
    <2> HIDE DEF r
    <2>2. \A n \in Names : Immutable(n) => cmd.key # n
      BY <1>2 DEF Immutable
    <2>3. \A n \in Names : Immutable(n) => <<"key", n>> \notin Material(cmd) \cup {<<"cert", cmd.chain>>}
      BY <2>2 DEF Material
    <2>4. Sparing(r) /\ r.op # "upload"
      BY <2>1, <2>3 DEF Sparing, Delete, Usage, WriteMemory
    <2> QED BY <1>2, <2>4 DEF r
  <1>3. CASE cmd.do \notin {"import", "delete"}
    <2>1. r.op \in {"bind", "unbind", "read", "write"}
      BY <1>3, OtherElement
    <2> HIDE DEF r
    <2>2. Sparing(r) /\ r.op # "upload"
      BY <2>1 DEF Sparing
    <2> QED BY <1>3, <2>2 DEF r
  <1> QED BY <1>1, <1>2, <1>3

LEMMA PartsSparing ==
    ASSUME NEW r, Sparing(r), NEW config, Backed(r, config), NEW p \in Parts(r)
    PROVE  Sparing(p) /\ Backed(p, config)
  <1>1. CASE r.op = "delete"
    <2>1. PICK f \in r.files : p = Delete({f})
      BY <1>1 DEF Parts
    <2> QED BY <1>1, <2>1 DEF Sparing, Backed, Delete
  <1>2. CASE r.op # "delete"
    <2>1. p = r
      BY <1>2 DEF Parts
    <2> QED BY <2>1
  <1> QED BY <1>1, <1>2

(* The request a shell is about to send. *)
LEMMA NextRequestBacked ==
    ASSUME TypeOK, PairInv, NEW s \in Shells, pc[s] = "work", s \in sessions
    PROVE  Sparing(Program(Cmd(s))[step[s]]) /\ Backed(Program(Cmd(s))[step[s]], running)
  <1> DEFINE r == Program(Cmd(s))[step[s]]
  <1>1. Cmd(s) \in Command /\ Cmd(s) \in Issued /\ step[s] \in DOMAIN Program(Cmd(s))
    BY RequestTyped
  <1>2. /\ Sparing(r)
        /\ \A n \in Names :
              Immutable(n) /\ r.op = "upload" /\ r.file = <<"cert", n>> =>
                 /\ step[s] # 1 /\ Cmd(s).do = "import" /\ Cmd(s).name = n
                 /\ r.content = Piece(Cmd(s).bundle, "certificate")
    BY <1>1, ProgramSparing
  <1> HIDE DEF r
  <1>3. ASSUME NEW n \in Names, Immutable(n), r.op = "upload", r.file = <<"cert", n>>
        PROVE  \E b \in Bundles : /\ r.content = Piece(b, "certificate")
                                  /\ running.files[<<"key", n>>] = Piece(b, "key")
    <2>1. step[s] # 1 /\ Cmd(s).do = "import" /\ Cmd(s).name = n
          /\ r.content = Piece(Cmd(s).bundle, "certificate")
      BY <1>2, <1>3
    <2>2. Cmd(s).bundle \in Bundles
      BY <1>1, <2>1 DEF Command
    <2>3. running.files[<<"key", n>>] = Piece(Cmd(s).bundle, "key")
      BY <1>3, <2>1 DEF PairInv, KeyInPlace, Importing
    <2> QED BY <2>1, <2>2, <2>3
  <1>4. Backed(r, running)
    BY <1>3 DEF Backed
  <1> QED BY <1>2, <1>4 DEF r

(* A step keeps the invariant if it keeps the pairs and the keys, if what  *)
(* becomes late is sparing and backed, and if an import that goes on was   *)
(* already past its first request or has its key.                          *)
LEMMA PairStep ==
    ASSUME PairInv, TypeInv,
           Pairs(running'), Pairs(startup'), KeysStay(running, running'),
           \A q \in Shells : \A r \in late'[q] :
              r \in late[q] \/ (Sparing(r) /\ Backed(r, running)),
           \A r \in stray' : r \in stray \/ \E q \in Shells : r \in late[q],
           \A q \in Shells :
              \/ Importing(q)' => Importing(q) /\ Cmd(q)' = Cmd(q)
              \/ KeyInPlace(q)'
    PROVE  PairInv'
  <1>1. ASSUME NEW q \in Shells PROVE KeyInPlace(q)'
    <2>1. CASE KeyInPlace(q)'
      BY <2>1
    <2>2. CASE Importing(q)' => Importing(q) /\ Cmd(q)' = Cmd(q)
      <3> SUFFICES ASSUME Importing(q)', Immutable(Cmd(q)'.name)
                   PROVE  running'.files[<<"key", Cmd(q)'.name>>] = Piece(Cmd(q)'.bundle, "key")
        BY DEF KeyInPlace, Immutable, Paired, Issued
      <3>1. Importing(q) /\ Cmd(q)' = Cmd(q)
        BY <2>2
      <3>2. Cmd(q) \in Command /\ Cmd(q).do = "import"
        BY <3>1, RequestTyped DEF Importing, TypeInv
      <3>3. Cmd(q).name \in Names /\ Cmd(q).bundle \in Bundles
        BY <3>2, NamingAssumption DEF Command
      <3>4. running.files[<<"key", Cmd(q).name>>] = Piece(Cmd(q).bundle, "key")
        BY <3>1 DEF PairInv, KeyInPlace
      <3> QED BY <3>1, <3>3, <3>4, PieceThere DEF KeysStay
    <2> QED BY <1>1, <2>1, <2>2
  <1>2. ASSUME NEW q \in Shells, NEW r \in late'[q] PROVE Sparing(r) /\ Backed(r, running')
    <2>1. Sparing(r) /\ Backed(r, running)
      BY <1>2 DEF PairInv
    <2> QED BY <2>1, BackedStays
  <1>3. ASSUME NEW r \in stray' PROVE Sparing(r) /\ Backed(r, running')
    <2>1. Sparing(r) /\ Backed(r, running)
      BY <1>3 DEF PairInv
    <2> QED BY <2>1, BackedStays
  <1> QED BY <1>1, <1>2, <1>3 DEF PairInv, Sparing, Immutable, Paired, Issued, Pairs, Backed

(* A step of shell s that leaves the appliance alone and s outside of a    *)
(* program, or before its first request.                                   *)
LEMMA QuietStep ==
    ASSUME PairInv, TypeInv, NEW s \in Shells, UNCHANGED <<running, startup>>,
           \A q \in Shells \ {s} : pc'[q] = pc[q] /\ step'[q] = step[q] /\ line'[q] = line[q],
           sessions' \subseteq sessions \cup {s},
           pc'[s] # "work" \/ step'[s] = 1,
           \A q \in Shells : \A r \in late'[q] :
              r \in late[q] \/ (Sparing(r) /\ Backed(r, running)),
           \A r \in stray' : r \in stray \/ \E q \in Shells : r \in late[q]
    PROVE  PairInv'
  <1>1. Pairs(running') /\ Pairs(startup') /\ KeysStay(running, running')
    BY DEF PairInv, KeysStay
  <1>2. ASSUME NEW q \in Shells PROVE Importing(q)' => Importing(q) /\ Cmd(q)' = Cmd(q)
    BY DEF Importing, Cmd
  <1> QED BY <1>1, <1>2, PairStep

LEMMA RequestPairs == ASSUME PairInv, TypeInv, NEW s \in Shells, Request(s) PROVE PairInv'
  <1> DEFINE r == Program(Cmd(s))[step[s]]
  <1>1. /\ pc[s] = "work" /\ Cmd(s) \in Command /\ Cmd(s) \in Issued
        /\ step[s] \in DOMAIN Program(Cmd(s)) /\ r \in Message
    BY RequestCases, RequestTyped DEF TypeInv
  <1>2. s \in sessions => Sparing(r) /\ Backed(r, running)
    BY <1>1, NextRequestBacked DEF TypeInv
  <1>3. CASE Carried(s)
    <2>0. /\ s \in sessions /\ Process(r)
          /\ UNCHANGED <<late, stray, sessions, line>>
          /\ \A q \in Shells \ {s} : pc'[q] = pc[q] /\ step'[q] = step[q]
      BY <1>3, RequestCases DEF Carried, Goto, TypeInv, TypeOK
    <2>1. running \in Config /\ startup \in Config /\ Pairs(running) /\ Pairs(startup)
      BY DEF TypeInv, TypeOK, PairInv
    <2>2. running' \in Results(running, r) /\ startup' \in {running, startup}
      BY <2>0 DEF Process
    <2>3. Pairs(running') /\ KeysStay(running, running') /\ Pairs(startup')
      BY <1>1, <1>2, <2>0, <2>1, <2>2, ResultsPaired
    <2>4. ASSUME NEW q \in Shells \ {s} PROVE Importing(q)' => Importing(q) /\ Cmd(q)' = Cmd(q)
      BY <2>0 DEF Importing, Cmd
    <2>5. CASE step[s] # 1
      <3>1. Importing(s)' => Importing(s) /\ Cmd(s)' = Cmd(s)
        BY <1>1, <2>0, <2>5 DEF Importing, Cmd
      <3> QED BY <2>0, <2>3, <2>4, <3>1, PairStep
    <2>6. CASE step[s] = 1
      <3>1. ASSUME Importing(s)', Immutable(Cmd(s).name)
            PROVE  running'.files[<<"key", Cmd(s).name>>] = Piece(Cmd(s).bundle, "key")
        <4>1. Cmd(s).do = "import"
          BY <2>0, <3>1 DEF Importing, Cmd
        <4>2. r = Upload(<<"key", Cmd(s).name>>, Piece(Cmd(s).bundle, "key"), Cmd(s).replace)
          BY <1>1, <2>6, <4>1, ProgramSparing
        <4>3. <<"key", Cmd(s).name>> \in Stored
          BY <1>1, <4>1, NamingAssumption, NameTyped DEF Command
        <4>4. running' = [running EXCEPT !.files[<<"key", Cmd(s).name>>] = Piece(Cmd(s).bundle, "key")]
          <5> HIDE DEF r
          <5> QED BY <2>2, <4>2 DEF Results, Upload
        <4> QED BY <2>1, <4>3, <4>4 DEF Config
      <3>2. Cmd(s)' = Cmd(s)
        BY <2>0 DEF Cmd
      <3>3. KeyInPlace(s)'
        BY <3>1, <3>2 DEF KeyInPlace, Immutable, Paired, Issued
      <3> QED BY <2>0, <2>3, <2>4, <3>3, PairStep
    <2> QED BY <2>5, <2>6
  <1>4. CASE Fail(s) /\ UNCHANGED <<running, startup, late, step, used>>
    BY <1>4, RequestCases, QuietStep DEF Fail, Goto, TypeInv, TypeOK
  <1>5. CASE Lost(s)
    <2>1. \A q \in Shells : \A p \in late'[q] :
             p \in late[q] \/ (Sparing(p) /\ Backed(p, running))
      <3>1. s \in sessions => \A p \in Parts(r) : Sparing(p) /\ Backed(p, running)
        BY <1>2, PartsSparing
      <3>2. late' = [late EXCEPT ![s] = IF s \in sessions THEN Parts(r) ELSE late[s]]
        BY <1>5 DEF Lost
      <3> HIDE DEF r
      <3> QED BY <3>1, <3>2 DEF TypeInv, TypeOK
    <2> QED BY <1>5, <2>1, RequestCases, QuietStep DEF Lost, Fail, Goto, TypeInv, TypeOK
  <1> QED BY <1>3, <1>4, <1>5, RequestCases

LEMMA KillPairs == ASSUME PairInv, TypeInv, NEW s \in Shells, Kill(s) PROVE PairInv'
  <1> DEFINE r == Program(Cmd(s))[step[s]]
             doubt == IF pc[s] = "work" /\ s \in sessions THEN Parts(r) ELSE late[s]
  <1>1. pc[s] = "work" /\ s \in sessions => \A p \in Parts(r) : Sparing(p) /\ Backed(p, running)
    BY NextRequestBacked, PartsSparing DEF TypeInv
  <1>2. late' = [late EXCEPT ![s] = doubt]
    BY DEF Kill
  <1>3. \A p \in doubt : p \in late[s] \/ (Sparing(p) /\ Backed(p, running))
    <2> HIDE DEF r
    <2> QED BY <1>1
  <1> HIDE DEF doubt, r
  <1>4. \A q \in Shells : \A p \in late'[q] :
           p \in late[q] \/ (Sparing(p) /\ Backed(p, running))
    BY <1>2, <1>3 DEF TypeInv, TypeOK
  <1> QED BY <1>4, QuietStep DEF Kill, Exit, Goto, TypeInv, TypeOK

LEMMA LandPairs == ASSUME PairInv, TypeInv, NEW s \in Shells, Land(s) PROVE PairInv'
  <1>1. PICK r \in late[s] : Process(r) /\ late' = [late EXCEPT ![s] = @ \ {r}]
    BY DEF Land
  <1>2. r \in Message /\ Sparing(r) /\ Backed(r, running)
    BY DEF TypeInv, TypeOK, PairInv
  <1>3. running' \in Results(running, r) /\ startup' \in {running, startup}
    BY <1>1 DEF Process
  <1>4. Pairs(running') /\ KeysStay(running, running') /\ Pairs(startup')
    BY <1>2, <1>3, ResultsPaired DEF TypeInv, TypeOK, PairInv
  <1>5. \A q \in Shells : \A p \in late'[q] : p \in late[q]
    BY <1>1 DEF TypeInv, TypeOK
  <1>6. \A q \in Shells : Importing(q)' => Importing(q) /\ Cmd(q)' = Cmd(q)
    BY DEF Land, Importing, Cmd
  <1>7. stray' = stray
    BY DEF Land
  <1> QED BY <1>4, <1>5, <1>6, <1>7, PairStep

LEMMA LandStrayPairs == ASSUME PairInv, TypeInv, LandStray PROVE PairInv'
  <1>1. PICK r \in stray : Process(r) /\ stray' = stray \ {r}
    BY DEF LandStray
  <1>2. r \in Message /\ Sparing(r) /\ Backed(r, running)
    BY DEF TypeInv, TypeOK, PairInv
  <1>3. running' \in Results(running, r) /\ startup' \in {running, startup}
    BY <1>1 DEF Process
  <1>4. Pairs(running') /\ KeysStay(running, running') /\ Pairs(startup')
    BY <1>2, <1>3, ResultsPaired DEF TypeInv, TypeOK, PairInv
  <1>5. \A q \in Shells : late'[q] = late[q] /\ (Importing(q)' => Importing(q) /\ Cmd(q)' = Cmd(q))
    BY DEF LandStray, Importing, Cmd
  <1> QED BY <1>1, <1>4, <1>5, PairStep

LEMMA RebootPairs == ASSUME PairInv, TypeInv, Reboot PROVE PairInv'
  <1>1. Pairs(running') /\ Pairs(startup')
    BY DEF Reboot, PairInv
  <1>2. ASSUME NEW q \in Shells PROVE KeyInPlace(q)' /\ late'[q] = {}
    BY DEF Reboot, KeyInPlace, Importing
  <1>3. stray' = {}
    BY DEF Reboot
  <1> QED BY <1>1, <1>2, <1>3 DEF PairInv, Pairs, Immutable, Paired, Issued, Sparing, Backed

LEMMA NextPairs == ASSUME PairInv, TypeInv, [Next]_vars PROVE PairInv'
  <1>1. ASSUME NEW s \in Shells, Run(s) PROVE PairInv'
    <2>1. CASE Begin(s)
      <3>1. \A q \in Shells : \A r \in late'[q] : r \in late[q]
        BY <2>1 DEF Begin, TypeInv, TypeOK
      <3> QED BY <2>1, <3>1, QuietStep DEF Begin, Goto, TypeInv, TypeOK
    <2>2. CASE StartSession(s)
      BY <2>2, QuietStep DEF StartSession, Exit, Goto, TypeInv, TypeOK, Flow
    <2>3. CASE VerifyCompatibility(s)
      BY <2>3, QuietStep DEF VerifyCompatibility, Fail, Goto, TypeInv, TypeOK, Flow, appliance
    <2>4. CASE Request(s)
      BY <2>4, RequestPairs
    <2>5. CASE Close(s)
      <3>1. \A q \in Shells : \A r \in late'[q] : r \in late[q]
        BY <2>5 DEF Close, TypeInv, TypeOK
      <3> QED BY <2>5, <3>1, QuietStep DEF Close, Exit, Goto, TypeInv, TypeOK
    <2>6. CASE ReadTemplate(s)
      BY <2>6, QuietStep DEF ReadTemplate, Look, Blind, Fail, Goto, TypeInv, TypeOK, appliance
    <2>7. CASE FindCertificate(s)
      BY <2>7, QuietStep DEF FindCertificate, Find, Look, Blind, Fail, Goto, TypeInv, TypeOK, appliance
    <2>8. CASE FindKey(s)
      BY <2>8, QuietStep DEF FindKey, Find, Look, Blind, Fail, Goto, TypeInv, TypeOK, appliance
    <2> QED BY <1>1, <2>1, <2>2, <2>3, <2>4, <2>5, <2>6, <2>7, <2>8 DEF Run
  <1>2. CASE UNCHANGED vars
    BY <1>2, PairStep DEF vars, appliance, PairInv, KeysStay, Importing, Cmd
  <1> QED BY <1>1, <1>2, KillPairs, LandPairs, LandStrayPairs, RebootPairs DEF Next, Finished

(* Whatever commands any shells run, wherever they fail or are killed and  *)
(* however late their requests land: under a name of which nobody replaces *)
(* or deletes the key, a certificate never stands alone or beside the key  *)
(* of another bundle.                                                      *)
THEOREM KeyComesFirstHolds == Spec => []KeyComesFirst
  <1>1. Init => TypeInv /\ PairInv
    <2> SUFFICES ASSUME Init PROVE TypeInv /\ PairInv
      OBVIOUS
    <2>1. Pairs(running) /\ Pairs(startup)
      BY DEF Init, Pairs, Immutable
    <2>2. stray = {} /\ \A s \in Shells : KeyInPlace(s) /\ late[s] = {}
      BY DEF Init, KeyInPlace, Importing
    <2> QED BY <2>1, <2>2, InitTyped DEF PairInv
  <1>2. TypeInv /\ PairInv /\ [Next]_vars => (TypeInv /\ PairInv)'
    BY NextTyped, NextPairs
  <1>3. PairInv => KeyComesFirst
    BY DEF PairInv, Pairs, KeyComesFirst
  <1> QED BY <1>1, <1>2, <1>3, PTL DEF Spec

----------------------------------------------------------------------------
(* An image that is not ACOS 6.                                            *)

(* With an image that is not supported, a shell with a session asks for    *)
(* listings at most, and nothing it has asked for earlier is in doubt.     *)
Harmless(s) == late[s] = {} /\ (pc[s] = "work" => Cmd(s).do = "show")

VersionInv ==
    /\ \A s \in Shells :
          /\ pc[s] = "auth" => late[s] = {}
          /\ s \in sessions => supported \/ Harmless(s)
          /\ late[s] # {} => supported
    /\ stray # {} => supported

LEMMA ShowProgram ==
    ASSUME TypeInv, NEW s \in Shells, pc[s] = "work", Cmd(s).do = "show"
    PROVE  Program(Cmd(s))[step[s]] = ReadOnly
  <1>1. Cmd(s) \in Command /\ step[s] \in DOMAIN Program(Cmd(s))
    BY RequestTyped DEF TypeInv
  <1>2. Cmd(s).write = FALSE
    BY <1>1 DEF Command
  <1>3. Changes(Cmd(s)) = <<ReadOnly>> /\ Only(Cmd(s).write, WriteMemory) = <<>>
    BY <1>2 DEF Changes, Only
  <1>4. Program(Cmd(s)) = <<ReadOnly>>
    BY <1>3, EmptySeq, ConcatEmptySeq DEF Program, Message
  <1> QED BY <1>1, <1>4

(* A step of shell s that leaves the others alone. *)
LEMMA OthersKeep ==
    ASSUME VersionInv, NEW s \in Shells, supported' = supported,
           \A q \in Shells \ {s} : /\ pc'[q] = pc[q] /\ line'[q] = line[q] /\ late'[q] = late[q]
                                   /\ q \in sessions' => q \in sessions,
           pc'[s] = "auth" => late'[s] = {},
           s \in sessions' => supported \/ Harmless(s)',
           late'[s] # {} => supported,
           stray' # {} => stray # {} \/ late[s] # {}
    PROVE  VersionInv'
  <1>1. ASSUME NEW q \in Shells \ {s}
        PROVE  Harmless(q)' <=> Harmless(q)
    BY DEF Harmless, Cmd
  <1> QED BY <1>1 DEF VersionInv

LEMMA RequestVersion ==
    ASSUME VersionInv, TypeInv, NEW s \in Shells, Request(s)
    PROVE  VersionInv'
  <1> DEFINE r == Program(Cmd(s))[step[s]]
  <1>1. pc[s] = "work" /\ UNCHANGED <<supported, sessions, stray, line, seen, exit>>
    BY RequestCases
  <1>2. s \in sessions => supported \/ (late[s] = {} /\ Cmd(s).do = "show")
    BY <1>1 DEF VersionInv, Harmless
  <1>3. Cmd(s)' = Cmd(s)
    BY <1>1 DEF Cmd
  <1>4. \A q \in Shells \ {s} : pc'[q] = pc[q] /\ late'[q] = late[q]
    <2>1. \E label : pc' = [pc EXCEPT ![s] = label]
      BY RequestCases DEF Carried, Lost, Fail, Goto
    <2>2. \E lost : late' = late \/ late' = [late EXCEPT ![s] = lost]
      BY RequestCases DEF Carried, Lost
    <2> QED BY <2>1, <2>2 DEF TypeInv, TypeOK
  <1>5. pc'[s] # "auth"
    <2> HIDE DEF r
    <2> QED BY RequestCases DEF Carried, Lost, Fail, Goto, TypeInv, TypeOK
  <1>6. s \in sessions /\ ~ supported => late'[s] = {}
    <2> SUFFICES ASSUME s \in sessions, ~ supported PROVE late'[s] = {}
      OBVIOUS
    <2>1. Parts(r) = {}
      <3>1. r = ReadOnly
        BY <1>1, <1>2, ShowProgram
      <3> HIDE DEF r
      <3> QED BY <3>1 DEF Parts, ReadOnly
    <2>2. late'[s] \in {late[s], Parts(r)}
      <3>1. late' = late \/ late' = [late EXCEPT ![s] = IF s \in sessions THEN Parts(r) ELSE late[s]]
        BY RequestCases DEF Carried, Lost
      <3> HIDE DEF r
      <3> QED BY <3>1 DEF TypeInv, TypeOK
    <2> QED BY <1>2, <2>1, <2>2
  <1>7. s \in sessions' => supported \/ Harmless(s)'
    BY <1>1, <1>2, <1>3, <1>6 DEF Harmless
  <1>8. late'[s] # {} => supported
    <2>1. s \notin sessions => late'[s] = late[s]
      <3>1. late' = late \/ late' = [late EXCEPT ![s] = IF s \in sessions THEN Parts(r) ELSE late[s]]
        BY RequestCases DEF Carried, Lost
      <3> HIDE DEF r
      <3> QED BY <3>1 DEF TypeInv, TypeOK
    <2> QED BY <1>6, <2>1 DEF VersionInv
  <1> HIDE DEF r
  <1> QED BY <1>1, <1>4, <1>5, <1>7, <1>8, OthersKeep

LEMMA KillVersion == ASSUME VersionInv, TypeInv, NEW s \in Shells, Kill(s) PROVE VersionInv'
  <1> DEFINE r == Program(Cmd(s))[step[s]]
             doubt == IF pc[s] = "work" /\ s \in sessions THEN Parts(r) ELSE late[s]
  <1>1. late' = [late EXCEPT ![s] = doubt]
    BY DEF Kill
  <1>2. s \in sessions /\ ~ supported => doubt = {}
    <2> SUFFICES ASSUME s \in sessions, ~ supported PROVE doubt = {}
      OBVIOUS
    <2>1. late[s] = {} /\ (pc[s] = "work" => Cmd(s).do = "show")
      BY DEF VersionInv, Harmless
    <2>2. pc[s] = "work" => r = ReadOnly
      BY <2>1, ShowProgram
    <2> HIDE DEF r
    <2> QED BY <2>1, <2>2 DEF Parts, ReadOnly
  <1>6. s \notin sessions => doubt = late[s]
    OBVIOUS
  <1> HIDE DEF doubt
  <1>3. pc' = [pc EXCEPT ![s] = "idle"] /\ UNCHANGED <<supported, sessions, stray>>
        /\ \A q \in Shells \ {s} : line'[q] = line[q]
    BY DEF Kill, Exit, Goto, TypeInv, TypeOK
  <1>4. pc'[s] = "idle" /\ late'[s] = doubt
        /\ \A q \in Shells \ {s} : pc'[q] = pc[q] /\ late'[q] = late[q]
    BY <1>1, <1>3 DEF TypeInv, TypeOK
  <1>5. late'[s] # {} => supported
    BY <1>2, <1>6, <1>4 DEF VersionInv
  <1> QED BY <1>2, <1>3, <1>4, <1>5, OthersKeep DEF Harmless

LEMMA SessionVersion ==
    ASSUME VersionInv, TypeInv, NEW s \in Shells, StartSession(s) \/ VerifyCompatibility(s)
    PROVE  VersionInv'
  <1>1. CASE StartSession(s)
    <2>1. pc[s] = "auth" /\ late[s] = {} /\ UNCHANGED <<supported, late, stray>>
      BY <1>1 DEF StartSession, VersionInv
    <2>2. \A q \in Shells \ {s} : /\ pc'[q] = pc[q] /\ line'[q] = line[q]
                                  /\ q \in sessions' => q \in sessions
      BY <1>1 DEF StartSession, Exit, Goto, TypeInv, TypeOK
    <2>3. pc'[s] = "work" => Cmd(s).do = "show" /\ Cmd(s)' = Cmd(s)
      BY <1>1 DEF StartSession, Exit, Goto, TypeInv, TypeOK, Compatible, Cmd
    <2>4. pc'[s] # "auth"
      BY <1>1 DEF StartSession, Exit, Goto, TypeInv, TypeOK, Start
    <2> QED BY <2>1, <2>2, <2>3, <2>4, OthersKeep DEF Harmless
  <1>2. CASE VerifyCompatibility(s)
    <2>1. UNCHANGED <<supported, late, stray, sessions, line>>
      BY <1>2 DEF VerifyCompatibility, appliance
    <2>2. \A q \in Shells \ {s} : pc'[q] = pc[q]
      BY <1>2 DEF VerifyCompatibility, Fail, Goto, TypeInv, TypeOK
    <2>3. pc'[s] # "auth" /\ (pc'[s] = "work" => supported)
      BY <1>2 DEF VerifyCompatibility, Fail, Goto, TypeInv, TypeOK, Start
    <2> QED BY <2>1, <2>2, <2>3, OthersKeep DEF VersionInv, Harmless
  <1> QED BY <1>1, <1>2

LEMMA RestVersion ==
    ASSUME VersionInv, TypeInv, NEW s \in Shells,
           Begin(s) \/ Close(s) \/ ReadTemplate(s) \/ FindCertificate(s) \/ FindKey(s) \/ Land(s)
    PROVE  VersionInv'
  <1>1. CASE Begin(s)
    <2>1. /\ UNCHANGED <<supported, sessions, line>>
          /\ late' = [late EXCEPT ![s] = {}] /\ pc' = [pc EXCEPT ![s] = "auth"]
          /\ stray' = stray \cup late[s]
      BY <1>1 DEF Begin, Goto
    <2>2. late'[s] = {} /\ pc'[s] = "auth"
          /\ \A q \in Shells \ {s} : pc'[q] = pc[q] /\ late'[q] = late[q]
      BY <2>1 DEF TypeInv, TypeOK
    <2> QED BY <2>1, <2>2, OthersKeep DEF Harmless
  <1>2. CASE Close(s)
    <2>1. supported' = supported /\ stray' = stray /\ pc' = [pc EXCEPT ![s] = "idle"]
          /\ \A q \in Shells \ {s} : line'[q] = line[q]
      BY <1>2 DEF Close, Exit, Goto, TypeInv, TypeOK
    <2>2. \/ sessions' = sessions \ {s} /\ late' = [late EXCEPT ![s] = {}]
          \/ UNCHANGED <<sessions, late>>
      BY <1>2 DEF Close
    <2>3. /\ pc'[s] = "idle" /\ late'[s] \in {late[s], {}}
          /\ \A q \in Shells \ {s} : pc'[q] = pc[q] /\ late'[q] = late[q]
      BY <2>1, <2>2 DEF TypeInv, TypeOK
    <2>4. s \in sessions' => UNCHANGED <<sessions, late>>
      BY <2>2
    <2> QED BY <2>1, <2>2, <2>3, <2>4, OthersKeep DEF VersionInv, Harmless
  <1>3. CASE ReadTemplate(s) \/ FindCertificate(s) \/ FindKey(s)
    <2>1. UNCHANGED <<supported, sessions, line, late, stray>>
      BY <1>3 DEF ReadTemplate, FindCertificate, FindKey, Find, Look, Blind, appliance
    <2>2. pc'[s] \in {"certificate", "key", "close"} /\ \A q \in Shells \ {s} : pc'[q] = pc[q]
      BY <1>3 DEF ReadTemplate, FindCertificate, FindKey, Find, Look, Blind, Fail, Goto, TypeInv, TypeOK
    <2> QED BY <2>1, <2>2, OthersKeep DEF VersionInv, Harmless
  <1>4. CASE Land(s)
    <2>1. UNCHANGED <<supported, sessions, line, pc, stray>>
      BY <1>4 DEF Land
    <2>2. late[s] # {} /\ s \in sessions
      BY <1>4 DEF Land
    <2>3. supported /\ pc[s] # "auth"
      BY <2>2 DEF VersionInv, Harmless
    <2>4. \A q \in Shells \ {s} : late'[q] = late[q]
      BY <1>4 DEF Land, TypeInv, TypeOK
    <2> QED BY <2>1, <2>3, <2>4, OthersKeep
  <1> QED BY <1>1, <1>2, <1>3, <1>4

LEMMA NextVersion == ASSUME VersionInv, TypeInv, [Next]_vars PROVE VersionInv'
  <1>1. CASE Reboot
    BY <1>1 DEF Reboot, VersionInv
  <1>2. CASE UNCHANGED vars
    BY <1>2 DEF vars, appliance, VersionInv, Harmless, Cmd
  <1>3. ASSUME NEW s \in Shells, Run(s) \/ Kill(s) \/ Land(s) PROVE VersionInv'
    BY <1>3, SessionVersion, RequestVersion, KillVersion, RestVersion DEF Run
  <1>4. CASE LandStray
    BY <1>4 DEF LandStray, VersionInv, Harmless, Cmd
  <1> QED BY <1>1, <1>2, <1>3, <1>4 DEF Next, Finished

(* A step changes an appliance only with an image that is supported. *)
LEMMA StepUntouched ==
    ASSUME VersionInv, TypeInv, [Next]_vars
    PROVE  supported \/ (startup' = startup /\ running' \in {running, startup})
  <1> SUFFICES ASSUME ~ supported PROVE startup' = startup /\ running' \in {running, startup}
    OBVIOUS
  <1>1. CASE Reboot
    BY <1>1 DEF Reboot
  <1>2. CASE UNCHANGED vars
    BY <1>2 DEF vars, appliance
  <1>3. ASSUME NEW s \in Shells, Request(s) PROVE UNCHANGED <<running, startup>>
    <2> DEFINE r == Program(Cmd(s))[step[s]]
    <2>1. CASE Carried(s)
      <3>1. s \in sessions /\ pc[s] = "work"
        BY <1>3, <2>1, RequestCases DEF Carried
      <3>2. r = ReadOnly
        BY <3>1, ShowProgram DEF VersionInv, Harmless
      <3>3. running' \in Results(running, r) /\ startup' = IF r.op = "write" THEN running ELSE startup
        BY <2>1 DEF Carried, Process
      <3> HIDE DEF r
      <3> QED BY <3>2, <3>3 DEF Results, ReadOnly
    <2>2. CASE ~ Carried(s)
      BY <1>3, <2>2, RequestCases DEF Lost
    <2> QED BY <2>1, <2>2
  <1>4. ~ LandStray /\ \A s \in Shells : ~ Land(s)
    BY DEF Land, LandStray, VersionInv
  <1>5. ASSUME NEW s \in Shells, Kill(s) PROVE UNCHANGED <<running, startup>>
    BY <1>5 DEF Kill
  <1>6. ASSUME NEW s \in Shells, Run(s), ~ Request(s) PROVE UNCHANGED <<running, startup>>
    BY <1>6 DEF Run, Begin, StartSession, VerifyCompatibility, Close, ReadTemplate,
                FindCertificate, FindKey, Find, Look, Blind, appliance
  <1> QED BY <1>1, <1>2, <1>3, <1>4, <1>5, <1>6 DEF Next, Finished

(* However many shells run which commands, and wherever a reboot into      *)
(* another image falls: nothing but a reboot changes an appliance whose    *)
(* image is not ACOS 6, requests that land late included.                  *)
THEOREM UnsupportedStays == Spec => UnsupportedUntouched
  <1>1. Init => TypeInv /\ VersionInv
    <2>1. Init => VersionInv
      BY DEF Init, VersionInv
    <2> QED BY <2>1, InitTyped
  <1>2. TypeInv /\ VersionInv /\ [Next]_vars => (TypeInv /\ VersionInv)'
    BY NextTyped, NextVersion
  <1>3. TypeInv /\ VersionInv /\ [Next]_vars =>
            [supported \/ (startup' = startup /\ running' \in {running, startup})]_vars
    BY StepUntouched
  <1> QED BY <1>1, <1>2, <1>3, PTL DEF Spec, UnsupportedUntouched

----------------------------------------------------------------------------
(* What requests do, and undo.                                             *)

(* What a request has done once it is carried out. *)
Achieved(r, config) ==
    CASE r.op = "upload" -> config.files[r.file] = r.content
      [] r.op = "bind" -> r.binding \in config.tmpl[r.tmpl].certs
      [] r.op = "unbind" -> ~ Bound(config.tmpl[r.tmpl], r.cert)
      [] r.op = "delete" -> \A f \in r.files : config.files[f] = Absent
      [] OTHER -> TRUE

LEMMA Operations ==
    ASSUME NEW r \in Message
    PROVE  /\ r.op \in {"upload", "bind", "unbind", "delete", "write", "read", "usage"}
           /\ r.op = "upload" => r.file \in Stored /\ r.content \in Content /\ r.replace \in BOOLEAN
           /\ r.op = "bind" => r.tmpl \in Templates /\ r.binding \in Binding
           /\ r.op = "unbind" => r.tmpl \in Templates /\ r.cert \in Names
           /\ r.op = "delete" => r.files \subseteq Stored
  BY DEF Message, WriteMemory, ReadOnly, Usage

(* What a request leaves of the files, and of the templates. *)
LEMMA FilesAfter ==
    ASSUME NEW config \in Config, NEW m \in Message, NEW after \in Results(config, m)
    PROVE  /\ m.op = "upload" =>
                 /\ m.replace \/ config.files[m.file] = Absent
                 /\ after.files[m.file] = m.content
                 /\ \A f \in Stored : f # m.file => after.files[f] = config.files[f]
           /\ m.op = "delete" =>
                 \A f \in Stored :
                    /\ f \in m.files => after.files[f] = Absent
                    /\ f \notin m.files => after.files[f] = config.files[f]
           /\ m.op \notin {"upload", "delete"} => after.files = config.files
  <1>0. config.files \in [Stored -> Content \cup {Absent}]
    BY DEF Config
  <1>1. CASE m.op = "upload"
    <2>1. m.file \in Stored
      BY <1>1, Operations
    <2>2. m.replace \/ config.files[m.file] = Absent
      BY <1>1 DEF Results
    <2>3. after = [config EXCEPT !.files[m.file] = m.content]
      BY <1>1 DEF Results
    <2>4. after.files = [config.files EXCEPT ![m.file] = m.content]
      BY <2>3 DEF Config
    <2> QED BY <1>0, <1>1, <2>1, <2>2, <2>4
  <1>2. CASE m.op = "delete"
    <2>1. after.files = [f \in Stored |-> IF f \in m.files THEN Absent ELSE config.files[f]]
      BY <1>0, <1>2 DEF Results, Config
    <2> QED BY <1>2, <2>1
  <1>3. CASE m.op \in {"bind", "unbind", "write", "read", "usage"}
    BY <1>3 DEF Results, Config
  <1> QED BY <1>1, <1>2, <1>3, Operations

LEMMA TemplatesAfter ==
    ASSUME NEW config \in Config, NEW m \in Message, NEW after \in Results(config, m)
    PROVE  /\ m.op \in {"bind", "unbind"} =>
                 \A t \in Templates \ {m.tmpl} : after.tmpl[t] = config.tmpl[t]
           /\ m.op = "bind" => m.binding \in after.tmpl[m.tmpl].certs
           /\ m.op = "unbind" => ~ Bound(after.tmpl[m.tmpl], m.cert)
           /\ m.op \notin {"bind", "unbind"} => after.tmpl = config.tmpl
  <1>0. config.tmpl \in [Templates -> Template]
    BY DEF Config
  <1>1. CASE m.op = "bind"
    <2>1. m.tmpl \in Templates
      BY <1>1, Operations
    <2>2. PICK rest : after = [config EXCEPT !.tmpl[m.tmpl].certs = rest \cup {m.binding}]
      BY <1>1 DEF Results
    <2> QED BY <1>0, <1>1, <2>1, <2>2 DEF Config, Template
  <1>2. CASE m.op = "unbind"
    <2>1. m.tmpl \in Templates
      BY <1>2, Operations
    <2>2. after = [config EXCEPT !.tmpl[m.tmpl] = WithoutCertificate(@, m.cert)]
      BY <1>2 DEF Results
    <2>3. after.tmpl = [config.tmpl EXCEPT ![m.tmpl] = WithoutCertificate(@, m.cert)]
      BY <2>2 DEF Config
    <2>4. after.tmpl[m.tmpl] = WithoutCertificate(config.tmpl[m.tmpl], m.cert)
      BY <1>0, <2>1, <2>3
    <2>5. config.tmpl[m.tmpl] \in Template
      BY <1>0, <2>1
    <2>6. ~ Bound(after.tmpl[m.tmpl], m.cert)
      BY <2>4, <2>5 DEF Bound, WithoutCertificate, Template
    <2> QED BY <1>0, <1>2, <2>1, <2>3, <2>6
  <1>3. CASE m.op \in {"upload", "delete", "write", "read", "usage"}
    BY <1>3, Operations DEF Results, Config
  <1> QED BY <1>1, <1>2, <1>3, Operations

LEMMA OwnAchieved ==
    ASSUME NEW config \in Config, NEW m \in Message, NEW after \in Results(config, m)
    PROVE  Achieved(m, after)
  <1>0. config.files \in [Stored -> Content \cup {Absent}]
    BY DEF Config
  <1>1. CASE m.op = "upload"
    BY <1>1, FilesAfter, Operations DEF Achieved
  <1>2. CASE m.op = "delete"
    BY <1>2, FilesAfter, Operations DEF Achieved
  <1>3. CASE m.op \in {"bind", "unbind"}
    BY <1>3, TemplatesAfter DEF Achieved
  <1>4. CASE m.op \in {"write", "read", "usage"}
    BY <1>4 DEF Achieved
  <1> QED BY <1>1, <1>2, <1>3, <1>4, Operations

(* What a request leaves in a slot. *)
LEMMA SlotAfter ==
    ASSUME NEW config \in Config, NEW m \in Message, NEW after \in Results(config, m),
           NEW t \in Templates
    PROVE  LET before == config.tmpl[t].certs IN
           /\ after.tmpl[t].extra = config.tmpl[t].extra
           /\ m.op = "bind" /\ m.tmpl = t =>
                 /\ FilesOf(m.binding) \subseteq Present(config)
                 /\ after.tmpl[t].certs \subseteq before \cup {m.binding}
           /\ m.op = "unbind" /\ m.tmpl = t =>
                 after.tmpl[t].certs = {b \in before : b.cert # m.cert}
           /\ m.op \notin {"bind", "unbind"} \/ m.tmpl # t => after.tmpl[t] = config.tmpl[t]
  <1>0. config.tmpl \in [Templates -> Template] /\ config.tmpl[t] \in Template
    BY DEF Config
  <1>1. CASE m.op = "bind" /\ m.tmpl = t
    <2>1. FilesOf(m.binding) \subseteq Present(config)
      BY <1>1 DEF Results
    <2>2. PICK rest \in {{b \in config.tmpl[t].certs : b.cert # m.binding.cert}, {}} :
             after = [config EXCEPT !.tmpl[t].certs = rest \cup {m.binding}]
      BY <1>1 DEF Results
    <2>3. rest \subseteq config.tmpl[t].certs
      BY <2>2
    <2>4. after.tmpl = [config.tmpl EXCEPT ![t].certs = rest \cup {m.binding}]
      BY <2>2 DEF Config
    <2>5. after.tmpl[t] = [config.tmpl[t] EXCEPT !.certs = rest \cup {m.binding}]
      BY <1>0, <2>4
    <2>6. after.tmpl[t].extra = config.tmpl[t].extra /\ after.tmpl[t].certs = rest \cup {m.binding}
      BY <1>0, <2>5 DEF Template
    <2> QED BY <1>1, <2>1, <2>3, <2>6
  <1>2. CASE m.op = "unbind" /\ m.tmpl = t
    <2>1. after = [config EXCEPT !.tmpl[t] = WithoutCertificate(@, m.cert)]
      BY <1>2 DEF Results
    <2>2. after.tmpl = [config.tmpl EXCEPT ![t] = WithoutCertificate(config.tmpl[t], m.cert)]
      BY <2>1 DEF Config
    <2>3. after.tmpl[t] = WithoutCertificate(config.tmpl[t], m.cert)
      BY <1>0, <2>2
    <2>4. /\ after.tmpl[t].extra = config.tmpl[t].extra
          /\ after.tmpl[t].certs = {b \in config.tmpl[t].certs : b.cert # m.cert}
      BY <1>0, <2>3 DEF WithoutCertificate, Template
    <2> QED BY <1>2, <2>4
  <1>3. CASE m.op \notin {"bind", "unbind"} \/ m.tmpl # t
    <2>1. after.tmpl[t] = config.tmpl[t]
      BY <1>3, TemplatesAfter
    <2> QED BY <1>3, <2>1
  <1> QED BY <1>1, <1>2, <1>3

(* A request that does not undo r leaves what r has done. *)
LEMMA AchievedStays ==
    ASSUME NEW config \in Config, NEW r \in Message, NEW m \in Message,
           NEW after \in Results(config, m), Achieved(r, config), ~ Undoes(m, r)
    PROVE  Achieved(r, after)
  <1>0. config.files \in [Stored -> Content \cup {Absent}]
    BY DEF Config
  <1>1. CASE r.op = "upload"
    <2>1. r.file \in Stored /\ config.files[r.file] = r.content /\ r.content # Absent
      BY <1>1, Operations, AbsentAssumption DEF Achieved
    <2>2. after.files[r.file] = r.content
      <3>1. CASE m.op = "upload"
        <4>1. CASE m.file = r.file
          <5>1. m.replace => m.content = r.content
            BY <1>1, <3>1, <4>1 DEF Undoes
          <5> QED BY <2>1, <3>1, <4>1, <5>1, FilesAfter
        <4>2. CASE m.file # r.file
          BY <2>1, <3>1, <4>2, FilesAfter
        <4> QED BY <4>1, <4>2
      <3>2. CASE m.op = "delete"
        <4>1. r.file \notin m.files
          BY <1>1, <3>2 DEF Undoes
        <4> QED BY <2>1, <3>2, <4>1, FilesAfter
      <3>3. CASE m.op \notin {"upload", "delete"}
        BY <2>1, <3>3, FilesAfter
      <3> QED BY <3>1, <3>2, <3>3
    <2> QED BY <1>1, <2>2 DEF Achieved
  <1>2. CASE r.op = "delete"
    <2>1. r.files \subseteq Stored /\ \A f \in r.files : config.files[f] = Absent
      BY <1>2, Operations DEF Achieved
    <2>2. ASSUME NEW f \in r.files PROVE after.files[f] = Absent
      <3>1. CASE m.op = "upload"
        <4>1. m.file # f
          BY <1>2, <3>1 DEF Undoes
        <4> QED BY <2>1, <3>1, <4>1, FilesAfter
      <3>2. CASE m.op # "upload"
        BY <2>1, <3>2, FilesAfter
      <3> QED BY <3>1, <3>2
    <2> QED BY <1>2, <2>2 DEF Achieved
  <1>3. CASE r.op \in {"bind", "unbind"}
    <2>1. r.tmpl \in Templates
      BY <1>3, Operations
    <2>2. CASE m.op \notin {"bind", "unbind"} \/ m.tmpl # r.tmpl
      <3>1. after.tmpl[r.tmpl] = config.tmpl[r.tmpl]
        BY <2>1, <2>2, SlotAfter
      <3> QED BY <1>3, <3>1 DEF Achieved
    <2>3. CASE m.op = "unbind" /\ m.tmpl = r.tmpl
      <3>1. after.tmpl[r.tmpl].certs = {b \in config.tmpl[r.tmpl].certs : b.cert # m.cert}
        BY <2>1, <2>3, SlotAfter
      <3> QED BY <1>3, <2>3, <3>1 DEF Achieved, Undoes, Bound
    <2>4. CASE m.op = "bind" /\ m.tmpl = r.tmpl /\ r.op = "bind"
      <3>1. m.binding = r.binding
        BY <2>4 DEF Undoes
      <3> QED BY <2>4, <3>1, OwnAchieved DEF Achieved
    <2>5. CASE m.op = "bind" /\ m.tmpl = r.tmpl /\ r.op = "unbind"
      <3>1. after.tmpl[r.tmpl].certs \subseteq config.tmpl[r.tmpl].certs \cup {m.binding}
        BY <2>1, <2>5, SlotAfter
      <3>2. m.binding.cert # r.cert
        BY <2>5 DEF Undoes
      <3> QED BY <2>5, <3>1, <3>2 DEF Achieved, Bound
    <2> QED BY <1>3, <2>2, <2>3, <2>4, <2>5
  <1>4. CASE r.op \in {"write", "read", "usage"}
    BY <1>4 DEF Achieved
  <1> QED BY <1>1, <1>2, <1>3, <1>4, Operations

LEMMA TwoTogether ==
    ASSUME NEW S, NEW x \in S, NEW y \in S
    PROVE  <<x>> \o <<y>> = <<x, y>>
  <1>1. <<x>> \in Seq(S) /\ <<y>> \in Seq(S) /\ <<x, y>> \in Seq(S)
    OBVIOUS
  <1>2. /\ Len(<<x>>) = 1 /\ Len(<<y>>) = 1 /\ Len(<<x, y>>) = 2
        /\ <<x>>[1] = x /\ <<y>>[1] = y /\ <<x, y>>[1] = x /\ <<x, y>>[2] = y
    OBVIOUS
  <1>3. /\ <<x>> \o <<y>> \in Seq(S) /\ Len(<<x>> \o <<y>>) = 2
        /\ (<<x>> \o <<y>>)[1] = x /\ (<<x>> \o <<y>>)[2] = y
    BY <1>1, <1>2, ConcatProperties
  <1>4. \A i \in 1 .. 2 : (<<x>> \o <<y>>)[i] = <<x, y>>[i]
    BY <1>2, <1>3
  <1> QED BY <1>1, <1>2, <1>3, <1>4, SeqEqual

LEMMA ThreeTogether ==
    ASSUME NEW S, NEW x \in S, NEW y \in S, NEW z \in S
    PROVE  <<x, y>> \o <<z>> = <<x, y, z>>
  <1>1. <<x, y>> \in Seq(S) /\ <<z>> \in Seq(S) /\ <<x, y, z>> \in Seq(S)
    OBVIOUS
  <1>2. /\ Len(<<x, y>>) = 2 /\ Len(<<z>>) = 1 /\ Len(<<x, y, z>>) = 3
        /\ <<x, y>>[1] = x /\ <<x, y>>[2] = y /\ <<z>>[1] = z
        /\ <<x, y, z>>[1] = x /\ <<x, y, z>>[2] = y /\ <<x, y, z>>[3] = z
    OBVIOUS
  <1>3. /\ <<x, y>> \o <<z>> \in Seq(S) /\ Len(<<x, y>> \o <<z>>) = 3
        /\ (<<x, y>> \o <<z>>)[1] = x /\ (<<x, y>> \o <<z>>)[2] = y /\ (<<x, y>> \o <<z>>)[3] = z
    BY <1>1, <1>2, ConcatProperties
  <1>4. \A i \in 1 .. 3 : (<<x, y>> \o <<z>>)[i] = <<x, y, z>>[i]
    BY <1>2, <1>3
  <1> QED BY <1>1, <1>2, <1>3, <1>4, SeqEqual

(* The changes of each command, one by one. *)
LEMMA ImportChanges ==
    ASSUME NEW cmd \in Command, cmd.do = "import"
    PROVE  /\ Changes(cmd) = Uploads(cmd)
           /\ Uploads(cmd) \in Seq(Message)
           /\ \A i \in DOMAIN Uploads(cmd) :
                 /\ Uploads(cmd)[i].op = "upload"
                 /\ Uploads(cmd)[i].replace = cmd.replace
                 /\ i = 1 => Uploads(cmd)[i].file = <<"key", cmd.name>>
                 /\ i = 2 => Uploads(cmd)[i].file = <<"cert", cmd.name>>
                 /\ i \notin {1, 2} => i = 3 /\ Uploads(cmd)[i].file = <<"cert", ChainName[cmd.name]>>
  <1> DEFINE key == Upload(<<"key", cmd.name>>, Piece(cmd.bundle, "key"), cmd.replace)
             cert == Upload(<<"cert", cmd.name>>, Piece(cmd.bundle, "certificate"), cmd.replace)
             chain == Upload(<<"cert", ChainName[cmd.name]>>, Piece(cmd.bundle, "chain"), cmd.replace)
  <1>1. /\ cmd.name \in DOMAIN ChainName /\ cmd.bundle \in Bundles
        /\ cmd.chain \in BOOLEAN /\ cmd.replace \in BOOLEAN
    BY DEF Command
  <1>2. cmd.name \in Names /\ ChainName[cmd.name] \in Names
    BY <1>1, NamingAssumption
  <1>3. \A part \in {"certificate", "key", "chain"} : Piece(cmd.bundle, part) \in Content
    BY <1>1 DEF Piece, Content
  <1>4. key \in Message /\ cert \in Message /\ chain \in Message
    BY <1>1, <1>2, <1>3, NameTyped DEF Message, Upload
  <1>5. /\ key.op = "upload" /\ key.replace = cmd.replace /\ key.file = <<"key", cmd.name>>
        /\ cert.op = "upload" /\ cert.replace = cmd.replace /\ cert.file = <<"cert", cmd.name>>
        /\ chain.op = "upload" /\ chain.replace = cmd.replace
        /\ chain.file = <<"cert", ChainName[cmd.name]>>
    BY DEF Upload
  <1>6. Uploads(cmd) = <<key, cert>> \o Only(cmd.chain, chain)
    BY DEF Uploads
  <1>7. Changes(cmd) = Uploads(cmd)
    BY DEF Changes
  <1> HIDE DEF key, cert, chain
  <1>8. CASE cmd.chain
    <2>1. Uploads(cmd) = <<key, cert, chain>>
      BY <1>4, <1>6, <1>8, ThreeTogether DEF Only
    <2> QED BY <1>4, <1>5, <1>7, <2>1
  <1>9. CASE ~ cmd.chain
    <2>1. Uploads(cmd) = <<key, cert>>
      BY <1>6, <1>9, <1>4, ConcatEmptySeq DEF Only
    <2> QED BY <1>4, <1>5, <1>7, <2>1
  <1> QED BY <1>1, <1>8, <1>9

LEMMA DeleteChanges ==
    ASSUME NEW cmd \in Command, cmd.do = "delete"
    PROVE  /\ Changes(cmd) \in Seq(Message)
           /\ \A i \in DOMAIN Changes(cmd) :
                 \/ Changes(cmd)[i] = Usage
                 \/ Changes(cmd)[i].op = "delete"
                    /\ Changes(cmd)[i].files \subseteq Material(cmd) \cup {<<"cert", cmd.chain>>}
           /\ Material(cmd) # {} =>
                 \E i \in DOMAIN Changes(cmd) : Changes(cmd)[i] = Delete(Material(cmd))
           /\ cmd.chain # NoName =>
                 \E i \in DOMAIN Changes(cmd) : Changes(cmd)[i] = Delete({<<"cert", cmd.chain>>})
  <1> DEFINE material == Delete(Material(cmd))
             chain == Delete({<<"cert", cmd.chain>>})
  <1>1. /\ cmd.cert \in Names \cup {NoName} /\ cmd.key \in Names \cup {NoName}
        /\ cmd.chain \in Names \cup {NoName} /\ cmd.ca \in Names \cup {NoName}
    BY DEF Command
  <1>2. Material(cmd) \subseteq Stored
    BY <1>1 DEF Material, Stored, File
  <1>3. material \in Message /\ Usage \in Message
    BY <1>2 DEF Delete, Message
  <1>4. cmd.chain # NoName => chain \in Message
    BY <1>1 DEF Delete, Message, Stored, File
  <1>5. /\ material.op = "delete" /\ material.files = Material(cmd)
        /\ chain.op = "delete" /\ chain.files = {<<"cert", cmd.chain>>}
    BY DEF Delete
  <1>6. Changes(cmd) = (Only(Material(cmd) # {}, material) \o Only(cmd.chain # NoName, chain))
                          \o Only(Material(cmd) = {} /\ cmd.chain = NoName, Usage)
    BY DEF Changes, Deletions
  <1> HIDE DEF material, chain
  <1>7. CASE Material(cmd) = {} /\ cmd.chain = NoName
    <2>1. Changes(cmd) = (<<>> \o <<>>) \o <<Usage>>
      BY <1>6, <1>7 DEF Only
    <2>2. Changes(cmd) = <<Usage>>
      BY <2>1, <1>3, EmptySeq, ConcatEmptySeq
    <2> QED BY <1>3, <1>7, <2>2
  <1>8. CASE Material(cmd) = {} /\ cmd.chain # NoName
    <2>1. Changes(cmd) = (<<>> \o <<chain>>) \o <<>>
      BY <1>6, <1>8 DEF Only
    <2>2. Changes(cmd) = <<chain>>
      BY <2>1, <1>4, <1>8, EmptySeq, ConcatEmptySeq
    <2> QED BY <1>4, <1>5, <1>8, <2>2 DEF chain
  <1>9. CASE Material(cmd) # {} /\ cmd.chain = NoName
    <2>1. Changes(cmd) = (<<material>> \o <<>>) \o <<>>
      BY <1>6, <1>9 DEF Only
    <2>2. Changes(cmd) = <<material>>
      BY <2>1, <1>3, EmptySeq, ConcatEmptySeq
    <2> QED BY <1>3, <1>5, <1>9, <2>2 DEF material
  <1>10. CASE Material(cmd) # {} /\ cmd.chain # NoName
    <2>1. Changes(cmd) = (<<material>> \o <<chain>>) \o <<>>
      BY <1>6, <1>10 DEF Only
    <2>2. <<material>> \o <<chain>> = <<material, chain>>
      BY <1>3, <1>4, <1>10, TwoTogether
    <2>3. Changes(cmd) = <<material, chain>>
      <3>1. <<material, chain>> \in Seq(Message)
        BY <1>3, <1>4, <1>10
      <3> QED BY <2>1, <2>2, <3>1, ConcatEmptySeq
    <2>4. /\ Changes(cmd) \in Seq(Message) /\ DOMAIN Changes(cmd) = 1 .. 2
          /\ Changes(cmd)[1] = material /\ Changes(cmd)[2] = chain
      BY <1>3, <1>4, <1>10, <2>3
    <2>5. ASSUME NEW i \in DOMAIN Changes(cmd)
          PROVE  Changes(cmd)[i].op = "delete"
                 /\ Changes(cmd)[i].files \subseteq Material(cmd) \cup {<<"cert", cmd.chain>>}
      <3>1. Changes(cmd)[i] = material \/ Changes(cmd)[i] = chain
        BY <2>4
      <3> QED BY <1>5, <3>1
    <2>6. \E i \in DOMAIN Changes(cmd) : Changes(cmd)[i] = material
      BY <2>4
    <2>7. \E i \in DOMAIN Changes(cmd) : Changes(cmd)[i] = chain
      BY <2>4
    <2> QED BY <2>4, <2>5, <2>6, <2>7 DEF material, chain
  <1> QED BY <1>7, <1>8, <1>9, <1>10

LEMMA OtherChanges ==
    ASSUME NEW cmd \in Command, cmd.do \notin {"import", "delete"}
    PROVE  /\ Changes(cmd) \in Seq(Message)
           /\ \A i \in DOMAIN Changes(cmd) : i = 1
           /\ \A i \in DOMAIN Changes(cmd) :
                 \/ cmd.do = "bind" /\ Changes(cmd)[i] = Bind(cmd.tmpl, cmd.binding)
                 \/ cmd.do = "unbind" /\ Changes(cmd)[i] = Unbind(cmd.tmpl, cmd.cert)
                 \/ Changes(cmd)[i] = ReadOnly
           /\ cmd.do \in {"bind", "unbind"} => 1 \in DOMAIN Changes(cmd)
  <1>1. CASE cmd.do = "bind"
    <2>1. Changes(cmd) = <<Bind(cmd.tmpl, cmd.binding)>>
      BY <1>1 DEF Changes
    <2>2. Bind(cmd.tmpl, cmd.binding) \in Message
      BY <1>1 DEF Command, Bind, Message
    <2> QED BY <1>1, <2>1, <2>2
  <1>2. CASE cmd.do = "unbind"
    <2>1. Changes(cmd) = <<Unbind(cmd.tmpl, cmd.cert)>>
      BY <1>2 DEF Changes
    <2>2. Unbind(cmd.tmpl, cmd.cert) \in Message
      BY <1>2 DEF Command, Unbind, Message
    <2> QED BY <1>2, <2>1, <2>2
  <1>3. CASE cmd.do = "show"
    <2>1. Changes(cmd) = <<ReadOnly>> /\ ReadOnly \in Message
      BY <1>3 DEF Changes, Message
    <2> QED BY <1>3, <2>1
  <1>4. CASE cmd.do \notin {"bind", "unbind", "show"}
    <2>1. Changes(cmd) = <<>>
      BY <1>4 DEF Changes
    <2> QED BY <1>4, <2>1, EmptySeq
  <1> QED BY <1>1, <1>2, <1>3, <1>4

LEMMA ChangesTyped ==
    ASSUME NEW cmd \in Command
    PROVE  Changes(cmd) \in Seq(Message)
  <1>1. CASE cmd.do = "import"
    BY <1>1, ImportChanges
  <1>2. CASE cmd.do = "delete"
    BY <1>2, DeleteChanges
  <1>3. CASE cmd.do \notin {"import", "delete"}
    BY <1>3, OtherChanges
  <1> QED BY <1>1, <1>2, <1>3

(* A program is the changes and, unless it was declined, write memory. *)
LEMMA ProgramElement ==
    ASSUME NEW cmd \in Command
    PROVE  /\ \A i \in DOMAIN Program(cmd) :
                 \/ i \in DOMAIN Changes(cmd) /\ Program(cmd)[i] = Changes(cmd)[i]
                 \/ i = Len(Program(cmd)) /\ Program(cmd)[i] = WriteMemory
           /\ \A i \in DOMAIN Changes(cmd) :
                 i \in DOMAIN Program(cmd) /\ Program(cmd)[i] = Changes(cmd)[i]
           /\ cmd.write => /\ Len(Program(cmd)) \in DOMAIN Program(cmd)
                           /\ Program(cmd)[Len(Program(cmd))] = WriteMemory
  <1>1. Changes(cmd) \in Seq(Message) /\ cmd.write \in BOOLEAN /\ WriteMemory \in Message
    BY ChangesTyped DEF Command, Message
  <1>2. CASE cmd.write
    <2>1. Program(cmd) = Changes(cmd) \o <<WriteMemory>>
      BY <1>2 DEF Program, Only
    <2>2. <<WriteMemory>> \in Seq(Message) /\ Len(<<WriteMemory>>) = 1 /\ <<WriteMemory>>[1] = WriteMemory
      BY <1>1
    <2> DEFINE n == Len(Changes(cmd))
    <2>3. n \in Nat /\ DOMAIN Changes(cmd) = 1 .. n
      BY <1>1
    <2>4. /\ Program(cmd) \in Seq(Message) /\ Len(Program(cmd)) = n + 1
          /\ \A i \in 1 .. n : Program(cmd)[i] = Changes(cmd)[i]
          /\ Program(cmd)[n + 1] = WriteMemory
      BY <1>1, <2>1, <2>2, <2>3, ConcatProperties
    <2>5. DOMAIN Program(cmd) = 1 .. n + 1
      BY <2>3, <2>4
    <2> HIDE DEF n
    <2> QED BY <2>3, <2>4, <2>5
  <1>3. CASE ~ cmd.write
    <2>1. Program(cmd) = Changes(cmd)
      BY <1>1, <1>3, ConcatEmptySeq DEF Program, Only
    <2> QED BY <1>3, <2>1
  <1> QED BY <1>1, <1>2, <1>3

(* No request of a command undoes another one. *)
LEMMA OwnOrder ==
    ASSUME NEW cmd \in Command, NEW i \in DOMAIN Program(cmd), NEW j \in DOMAIN Program(cmd), i # j
    PROVE  ~ Undoes(Program(cmd)[j], Program(cmd)[i])
  <1> DEFINE r == Program(cmd)[i]
             m == Program(cmd)[j]
  <1>1. Program(cmd) \in Seq(Message)
    BY ProgramTyped
  <1>2. CASE m = WriteMemory \/ r = WriteMemory
    <2> HIDE DEF m, r
    <2>1. ~ Undoes(m, r)
      BY <1>2 DEF Undoes, WriteMemory
    <2> QED BY <2>1 DEF m, r
  <1>3. CASE /\ i \in DOMAIN Changes(cmd) /\ r = Changes(cmd)[i]
             /\ j \in DOMAIN Changes(cmd) /\ m = Changes(cmd)[j]
    <2>1. CASE cmd.do = "import"
      <3>1. i \in DOMAIN Uploads(cmd) /\ j \in DOMAIN Uploads(cmd) /\ r = Uploads(cmd)[i] /\ m = Uploads(cmd)[j]
        BY <1>3, <2>1, ImportChanges
      <3>2. ChainName[cmd.name] # cmd.name
        BY <2>1, NamingAssumption DEF Command
      <3>3. /\ r.op = "upload" /\ m.op = "upload"
            /\ i = 1 => r.file = <<"key", cmd.name>>
            /\ i = 2 => r.file = <<"cert", cmd.name>>
            /\ i \notin {1, 2} => i = 3 /\ r.file = <<"cert", ChainName[cmd.name]>>
            /\ j = 1 => m.file = <<"key", cmd.name>>
            /\ j = 2 => m.file = <<"cert", cmd.name>>
            /\ j \notin {1, 2} => j = 3 /\ m.file = <<"cert", ChainName[cmd.name]>>
        BY <2>1, <3>1, ImportChanges
      <3> HIDE DEF m, r
      <3>4. r.file # m.file
        BY <3>2, <3>3
      <3>5. ~ Undoes(m, r)
        BY <3>3, <3>4 DEF Undoes
      <3> QED BY <3>5 DEF m, r
    <2>2. CASE cmd.do = "delete"
      <3>1. (r = Usage \/ r.op = "delete") /\ (m = Usage \/ m.op = "delete")
        BY <1>3, <2>2, DeleteChanges
      <3> HIDE DEF m, r
      <3>2. ~ Undoes(m, r)
        BY <3>1 DEF Undoes, Usage
      <3> QED BY <3>2 DEF m, r
    <2>3. CASE cmd.do \notin {"import", "delete"}
      <3>1. i = 1 /\ j = 1
        BY <1>3, <2>3, OtherChanges
      <3> QED BY <3>1
    <2> QED BY <2>1, <2>2, <2>3
  <1> QED BY <1>2, <1>3, ProgramElement

(* A command whose requests are all done has done what it promises. *)
LEMMA AllAchieved ==
    ASSUME NEW cmd \in Command, NEW config \in Config,
           \A i \in DOMAIN Program(cmd) : Achieved(Program(cmd)[i], config)
    PROVE  Fulfilled(cmd, config)
  <1>1. \A i \in DOMAIN Changes(cmd) : Achieved(Changes(cmd)[i], config)
    BY ProgramElement
  <1>2. CASE cmd.do = "import"
    <2>1. ASSUME NEW i \in DOMAIN Uploads(cmd)
          PROVE  config.files[Uploads(cmd)[i].file] = Uploads(cmd)[i].content
      <3>1. Achieved(Uploads(cmd)[i], config) /\ Uploads(cmd)[i].op = "upload"
        BY <1>1, <1>2, ImportChanges
      <3> QED BY <3>1 DEF Achieved
    <2> QED BY <1>2, <2>1 DEF Fulfilled
  <1>3. CASE cmd.do = "delete"
    <2>1. ASSUME NEW f \in Material(cmd) PROVE config.files[f] = Absent
      <3>1. PICK i \in DOMAIN Changes(cmd) : Changes(cmd)[i] = Delete(Material(cmd))
        BY <1>3, DeleteChanges
      <3>2. Achieved(Delete(Material(cmd)), config)
        BY <1>1, <3>1
      <3> QED BY <3>2 DEF Achieved, Delete
    <2>2. ASSUME cmd.chain # NoName PROVE config.files[<<"cert", cmd.chain>>] = Absent
      <3>1. PICK i \in DOMAIN Changes(cmd) : Changes(cmd)[i] = Delete({<<"cert", cmd.chain>>})
        BY <1>3, <2>2, DeleteChanges
      <3>2. Achieved(Delete({<<"cert", cmd.chain>>}), config)
        BY <1>1, <3>1
      <3> QED BY <3>2 DEF Achieved, Delete
    <2> QED BY <1>3, <2>1, <2>2 DEF Fulfilled, Present
  <1>4. CASE cmd.do \in {"bind", "unbind"}
    <2>1. Achieved(Changes(cmd)[1], config)
      BY <1>1, <1>4, OtherChanges
    <2>2. \/ cmd.do = "bind" /\ Changes(cmd)[1] = Bind(cmd.tmpl, cmd.binding)
          \/ cmd.do = "unbind" /\ Changes(cmd)[1] = Unbind(cmd.tmpl, cmd.cert)
      BY <1>4 DEF Changes
    <2> QED BY <2>1, <2>2 DEF Achieved, Fulfilled, Bind, Unbind
  <1>5. CASE cmd.do \notin {"import", "delete", "bind", "unbind"}
    BY <1>5 DEF Fulfilled
  <1> QED BY <1>2, <1>3, <1>4, <1>5

----------------------------------------------------------------------------
(* Requests in doubt.                                                      *)

Deleted(cmd) == Material(cmd) \cup {<<"cert", n>> : n \in {cmd.chain} \ {NoName}}

(* The requests of a command, and what may come of them without an answer. *)
From(cmd, m) ==
    \E i \in DOMAIN Program(cmd) : m = Program(cmd)[i] \/ m \in Parts(Program(cmd)[i])

(* What shell q may have sent so far. *)
Sent(q, m) == \E i \in DOMAIN Scripts[q] : i <= line[q] /\ From(Scripts[q][i], m)

(* What is in doubt of a shell's command is a request of it, and a stray   *)
(* request is one that some shell has sent.                                *)
Doubts ==
    /\ \A s \in Shells : \A m \in late[s] : line[s] \in DOMAIN Scripts[s] /\ From(Cmd(s), m)
    /\ \A m \in stray : \E q \in Shells : Sent(q, m)

(* What a step may do to the configurations and to the lines of the        *)
(* scripts: a reboot, a request of some command, or the end of one.        *)
Effected == \E q \in Shells : \E m \in Message : Sent(q, m) /\ Process(m)

Ended(s) ==
    /\ line'[s] = line[s] + 1
    /\ pc[s] = "close" /\ s \in sessions /\ ~ failed[s]

Change ==
    \/ line' = line /\ running' = startup /\ startup' = startup
    \/ line' = line /\ Effected
    \/ UNCHANGED <<running, startup>> /\ \A s \in Shells : line'[s] = line[s] \/ Ended(s)

(* A shell that moves on leaves nothing in doubt of the command that ended. *)
LateFate ==
    \A s \in Shells :
        \/ late'[s] = {}
        \/ /\ line'[s] = line[s]
           /\ \A m \in late'[s] : m \in late[s] \/ (line[s] \in DOMAIN Scripts[s] /\ From(Cmd(s), m))

StrayFate == \A m \in stray' : m \in stray \/ \E s \in Shells : m \in late[s]

Moves == Change /\ LateFate /\ StrayFate

LEMMA FromTyped ==
    ASSUME NEW cmd \in Command, NEW m, From(cmd, m)
    PROVE  /\ m \in Message
           /\ m.op = "bind" => cmd.do = "bind" /\ m.tmpl = cmd.tmpl /\ m.binding = cmd.binding
           /\ m.op = "unbind" => cmd.do = "unbind" /\ m.tmpl = cmd.tmpl /\ m.cert = cmd.cert
           /\ m.op = "delete" => cmd.do = "delete" /\ m.files \subseteq Deleted(cmd)
  <1>1. PICK i \in DOMAIN Program(cmd) : m = Program(cmd)[i] \/ m \in Parts(Program(cmd)[i])
    BY DEF From
  <1> DEFINE r == Program(cmd)[i]
  <1>2. r \in Message
    BY ProgramTyped
  <1>3. /\ r.op = "bind" => cmd.do = "bind" /\ r = Bind(cmd.tmpl, cmd.binding)
        /\ r.op = "unbind" => cmd.do = "unbind" /\ r = Unbind(cmd.tmpl, cmd.cert)
        /\ r.op = "delete" => cmd.do = "delete" /\ r.files \subseteq Deleted(cmd)
    <2>1. CASE r = WriteMemory
      <3> HIDE DEF r
      <3> QED BY <2>1 DEF WriteMemory
    <2>2. CASE i \in DOMAIN Changes(cmd) /\ r = Changes(cmd)[i]
      <3>1. CASE cmd.do = "import"
        <4>1. r.op = "upload"
          BY <2>2, <3>1, ImportChanges
        <4> HIDE DEF r
        <4> QED BY <4>1
      <3>2. CASE cmd.do = "delete"
        <4>1. r = Usage \/ (r.op = "delete" /\ r.files \subseteq Material(cmd) \cup {<<"cert", cmd.chain>>})
          BY <2>2, <3>2, DeleteChanges
        <4> HIDE DEF r
        <4>2. CASE r = Usage
          BY <4>2 DEF Usage
        <4>3. CASE r.op = "delete" /\ r.files \subseteq Material(cmd) \cup {<<"cert", cmd.chain>>}
          <5>1. <<"cert", NoName>> \notin r.files
            BY <1>2, <4>3, Operations, NamesAssumption DEF Stored, File
          <5>2. r.files \subseteq Deleted(cmd)
            BY <4>3, <5>1 DEF Deleted
          <5> QED BY <3>2, <4>3, <5>2
        <4> QED BY <4>1, <4>2, <4>3
      <3>3. CASE cmd.do \notin {"import", "delete"}
        <4>1. \/ cmd.do = "bind" /\ r = Bind(cmd.tmpl, cmd.binding)
              \/ cmd.do = "unbind" /\ r = Unbind(cmd.tmpl, cmd.cert)
              \/ r = ReadOnly
          BY <2>2, <3>3, OtherChanges
        <4> HIDE DEF r
        <4> QED BY <4>1 DEF Bind, Unbind, ReadOnly
      <3> QED BY <3>1, <3>2, <3>3
    <2> QED BY <2>1, <2>2, ProgramElement
  <1> HIDE DEF r
  <1>4. m = r \/ m \in Parts(r)
    BY <1>1 DEF r
  <1>5. m \in Message
    BY <1>2, <1>4, PartsTyped
  <1>6. CASE r.op = "delete"
    <2>1. m.op = "delete" /\ m.files \subseteq r.files
      BY <1>4, <1>6 DEF Parts, Delete
    <2> QED BY <1>3, <1>5, <1>6, <2>1
  <1>7. CASE r.op # "delete"
    <2>1. m = r
      BY <1>4, <1>7 DEF Parts
    <2> QED BY <1>3, <1>5, <1>7, <2>1 DEF Bind, Unbind
  <1> QED BY <1>6, <1>7

LEMMA LineTyped ==
    ASSUME TypeInv, NEW s \in Shells
    PROVE  line[s] \in Nat /\ \A i \in DOMAIN Scripts[s] : i \in Nat /\ Scripts[s][i] \in Command
  <1>1. Scripts[s] \in Seq(Command)
    BY ScriptAssumption
  <1> QED BY <1>1 DEF TypeInv, TypeOK

LEMMA SentTyped ==
    ASSUME NEW q \in Shells, NEW m, Sent(q, m)
    PROVE  m \in Message
  BY ScriptTyped, FromTyped DEF Sent

LEMMA SentNow ==
    ASSUME TypeInv, NEW s \in Shells, line[s] \in DOMAIN Scripts[s], NEW m, From(Cmd(s), m)
    PROVE  Sent(s, m)
  BY LineTyped DEF Sent, Cmd

(* The request a shell sends is one of its command. *)
LEMMA NextFrom ==
    ASSUME TypeInv, NEW s \in Shells, pc[s] = "work"
    PROVE  LET r == Program(Cmd(s))[step[s]] IN
           /\ line[s] \in DOMAIN Scripts[s] /\ r \in Message
           /\ From(Cmd(s), r) /\ \A m \in Parts(r) : From(Cmd(s), m)
  <1>1. step[s] \in DOMAIN Program(Cmd(s)) /\ Program(Cmd(s))[step[s]] \in Message
    BY RequestTyped DEF TypeInv
  <1> QED BY <1>1 DEF From, TypeInv, TypeOK

(* A failure leaves the shell at its line. *)
LEMMA FailedStays ==
    ASSUME TypeInv, NEW s \in Shells, Exit(s, "failed")
    PROVE  \A q \in Shells : line'[q] = line[q]
  BY DEF Exit, TypeInv, TypeOK

LEMMA RequestMoves ==
    ASSUME TypeInv, NEW s \in Shells, Request(s)
    PROVE  Moves
  <1> DEFINE r == Program(Cmd(s))[step[s]]
  <1>1. pc[s] = "work" /\ line' = line /\ stray' = stray
    BY RequestCases
  <1>2. line[s] \in DOMAIN Scripts[s] /\ r \in Message /\ From(Cmd(s), r) /\ \A m \in Parts(r) : From(Cmd(s), m)
    BY <1>1, NextFrom
  <1>3. CASE Carried(s)
    <2>1. Process(r) /\ late' = late
      BY <1>3 DEF Carried
    <2> HIDE DEF r
    <2>2. Effected
      BY <1>2, <2>1, SentNow DEF Effected
    <2> QED BY <1>1, <2>1, <2>2 DEF Moves, Change, LateFate, StrayFate
  <1>4. CASE ~ Carried(s)
    <2>1. UNCHANGED <<running, startup>>
          /\ (late' = late \/ late' = [late EXCEPT ![s] = IF s \in sessions THEN Parts(r) ELSE late[s]])
      BY <1>4, RequestCases DEF Lost
    <2> HIDE DEF r
    <2>2. \A q \in Shells : late'[q] = late[q] \/ (q = s /\ late'[q] = Parts(r))
      BY <2>1 DEF TypeInv, TypeOK
    <2> QED BY <1>1, <1>2, <2>1, <2>2 DEF Moves, Change, LateFate, StrayFate
  <1> QED BY <1>3, <1>4

LEMMA CloseMoves ==
    ASSUME TypeInv, NEW s \in Shells, Close(s)
    PROVE  Moves
  <1>1. UNCHANGED <<running, startup, stray>> /\ pc[s] = "close"
    BY DEF Close
  <1>2. CASE s \in sessions /\ late' = [late EXCEPT ![s] = {}] /\ ~ failed[s] /\ Exit(s, "zero")
    <2>1. line'[s] = line[s] + 1 /\ \A q \in Shells \ {s} : line'[q] = line[q]
      BY <1>2 DEF Exit, TypeInv, TypeOK
    <2>2. late'[s] = {} /\ \A q \in Shells \ {s} : late'[q] = late[q]
      BY <1>2 DEF TypeInv, TypeOK
    <2>3. Ended(s)
      BY <1>1, <1>2, <2>1 DEF Ended
    <2> QED BY <1>1, <2>1, <2>2, <2>3 DEF Moves, Change, LateFate, StrayFate
  <1>3. CASE Exit(s, "failed") /\ late' \in {late, [late EXCEPT ![s] = {}]}
    <2>1. \A q \in Shells : line'[q] = line[q]
      BY <1>3, FailedStays
    <2>2. \A q \in Shells : late'[q] \subseteq late[q]
      BY <1>3 DEF TypeInv, TypeOK
    <2> QED BY <1>1, <2>1, <2>2 DEF Moves, Change, LateFate, StrayFate
  <1> QED BY <1>2, <1>3 DEF Close

LEMMA KillMoves ==
    ASSUME TypeInv, NEW s \in Shells, Kill(s)
    PROVE  Moves
  <1> DEFINE doubt == IF pc[s] = "work" /\ s \in sessions THEN Parts(Program(Cmd(s))[step[s]]) ELSE late[s]
  <1>1. UNCHANGED <<running, startup, stray>> /\ \A q \in Shells : line'[q] = line[q]
    BY FailedStays DEF Kill
  <1>2. late' = [late EXCEPT ![s] = doubt]
    BY DEF Kill
  <1>3. \A m \in doubt : m \in late[s] \/ (line[s] \in DOMAIN Scripts[s] /\ From(Cmd(s), m))
    BY NextFrom
  <1> HIDE DEF doubt
  <1>4. late'[s] = doubt /\ \A q \in Shells \ {s} : late'[q] = late[q]
    BY <1>2 DEF TypeInv, TypeOK
  <1> QED BY <1>1, <1>3, <1>4 DEF Moves, Change, LateFate, StrayFate

LEMMA LandMoves ==
    ASSUME TypeInv, Doubts, NEW s \in Shells, Land(s)
    PROVE  Moves
  <1>1. PICK m \in late[s] : Process(m) /\ late' = [late EXCEPT ![s] = @ \ {m}]
    BY DEF Land
  <1>2. line' = line /\ stray' = stray /\ \A q \in Shells : late'[q] \subseteq late[q]
    BY <1>1 DEF Land, TypeInv, TypeOK
  <1>3. m \in Message /\ Sent(s, m)
    BY SentNow DEF Doubts, TypeInv, TypeOK
  <1>4. Effected
    BY <1>1, <1>3 DEF Effected
  <1> QED BY <1>2, <1>4 DEF Moves, Change, LateFate, StrayFate

LEMMA LandStrayMoves ==
    ASSUME TypeInv, Doubts, LandStray
    PROVE  Moves
  <1>1. PICK m \in stray : Process(m) /\ stray' = stray \ {m}
    BY DEF LandStray
  <1>2. UNCHANGED <<line, late>>
    BY DEF LandStray
  <1>3. m \in Message /\ \E q \in Shells : Sent(q, m)
    BY DEF Doubts, TypeInv, TypeOK
  <1>4. Effected
    BY <1>1, <1>3 DEF Effected
  <1> QED BY <1>1, <1>2, <1>4 DEF Moves, Change, LateFate, StrayFate

LEMMA StepMoves ==
    ASSUME TypeInv, Doubts, [Next]_vars
    PROVE  Moves
  <1>1. ASSUME NEW s \in Shells, Begin(s) PROVE Moves
    <2>1. UNCHANGED <<running, startup, line>> /\ late' = [late EXCEPT ![s] = {}]
          /\ stray' = stray \cup late[s]
      BY <1>1 DEF Begin
    <2>2. \A q \in Shells : late'[q] \subseteq late[q]
      BY <2>1 DEF TypeInv, TypeOK
    <2> QED BY <2>1, <2>2 DEF Moves, Change, LateFate, StrayFate
  <1>2. ASSUME NEW s \in Shells, StartSession(s) PROVE Moves
    <2>1. UNCHANGED <<running, startup, late, stray>> /\ (line' = line \/ Exit(s, "failed"))
      BY <1>2 DEF StartSession
    <2>2. \A q \in Shells : line'[q] = line[q]
      BY <2>1, FailedStays
    <2> QED BY <2>1, <2>2 DEF Moves, Change, LateFate, StrayFate
  <1>3. ASSUME NEW s \in Shells,
               VerifyCompatibility(s) \/ ReadTemplate(s) \/ FindCertificate(s) \/ FindKey(s)
        PROVE  Moves
    <2>1. UNCHANGED <<running, startup, late, stray, line>>
      BY <1>3 DEF VerifyCompatibility, ReadTemplate, FindCertificate, FindKey, Find, Look, Blind, appliance
    <2> QED BY <2>1 DEF Moves, Change, LateFate, StrayFate
  <1>4. CASE Reboot
    BY <1>4 DEF Reboot, Moves, Change, LateFate, StrayFate
  <1>5. CASE UNCHANGED vars
    BY <1>5 DEF vars, appliance, Moves, Change, LateFate, StrayFate
  <1> QED BY <1>1, <1>2, <1>3, <1>4, <1>5, RequestMoves, CloseMoves, KillMoves, LandMoves,
             LandStrayMoves
          DEF Next, Run, Finished

LEMMA InitDoubts == Init => Doubts
  BY DEF Init, Doubts

LEMMA NextDoubts == ASSUME TypeInv, Doubts, [Next]_vars PROVE Doubts'
  <1>0. Moves
    BY StepMoves
  <1>1. ASSUME NEW s \in Shells, NEW m \in late'[s]
        PROVE  line'[s] \in DOMAIN Scripts[s] /\ From(Cmd(s)', m)
    <2>1. /\ line'[s] = line[s]
          /\ m \in late[s] \/ (line[s] \in DOMAIN Scripts[s] /\ From(Cmd(s), m))
      BY <1>0, <1>1 DEF Moves, LateFate
    <2>2. line[s] \in DOMAIN Scripts[s] /\ From(Cmd(s), m)
      BY <2>1 DEF Doubts
    <2> QED BY <2>1, <2>2 DEF Cmd
  <1>2. ASSUME NEW q \in Shells, NEW m, Sent(q, m) PROVE Sent(q, m)'
    <2>1. line'[q] = line[q] \/ line'[q] = line[q] + 1
      BY <1>0 DEF Moves, Change, Ended
    <2>2. PICK i \in DOMAIN Scripts[q] : i <= line[q] /\ From(Scripts[q][i], m)
      BY <1>2 DEF Sent
    <2>3. i <= line'[q]
      BY <2>1, <2>2, LineTyped
    <2> QED BY <2>2, <2>3 DEF Sent, From
  <1>3. ASSUME NEW m \in stray' PROVE \E q \in Shells : Sent(q, m)'
    <2>1. \E q \in Shells : Sent(q, m)
      BY <1>0, <1>3, SentNow DEF Moves, StrayFate, Doubts
    <2> QED BY <1>2, <2>1
  <1> QED BY <1>1, <1>3 DEF Doubts, From

(* A part of a request undoes no more than the request. *)
LEMMA PartUndoes ==
    ASSUME NEW whole \in Message, NEW m, m = whole \/ m \in Parts(whole), NEW r, Undoes(m, r)
    PROVE  Undoes(whole, r)
  <1>1. CASE whole.op = "delete"
    <2>1. m = whole \/ \E f \in whole.files : m = Delete({f})
      BY <1>1 DEF Parts
    <2>2. m.op = "delete" /\ m.files \subseteq whole.files
      BY <1>1, <2>1 DEF Delete
    <2> QED BY <1>1, <2>2 DEF Undoes
  <1>2. CASE whole.op # "delete"
    <2>1. m = whole
      BY <1>2 DEF Parts
    <2> QED BY <2>1
  <1> QED BY <1>1, <1>2

(* A request of a command, or a part of it, that is carried out again      *)
(* leaves what the command has done.                                       *)
LEMMA RepeatSpares ==
    ASSUME NEW cmd \in Command, NEW m, From(cmd, m), NEW config \in Config,
           NEW after \in Results(config, m), NEW i \in DOMAIN Program(cmd),
           Achieved(Program(cmd)[i], config)
    PROVE  Achieved(Program(cmd)[i], after)
  <1> DEFINE r == Program(cmd)[i]
  <1>1. PICK j \in DOMAIN Program(cmd) : m = Program(cmd)[j] \/ m \in Parts(Program(cmd)[j])
    BY DEF From
  <1> DEFINE whole == Program(cmd)[j]
  <1>2. r \in Message /\ whole \in Message /\ m \in Message
    BY ProgramTyped, FromTyped
  <1>3. i # j => ~ Undoes(whole, r)
    BY OwnOrder
  <1>4. i = j => r = whole
    OBVIOUS
  <1>5. Achieved(r, config) /\ (m = whole \/ m \in Parts(whole))
    BY <1>1
  <1> SUFFICES Achieved(r, after)
    OBVIOUS
  <1> HIDE DEF r, whole
  <1>6. CASE i # j
    BY <1>2, <1>3, <1>5, <1>6, PartUndoes, AchievedStays
  <1>7. CASE i = j /\ m = whole
    BY <1>2, <1>4, <1>7, OwnAchieved
  <1>8. CASE i = j /\ m # whole
    <2>1. whole.op = "delete"
      BY <1>5, <1>8 DEF Parts
    <2>2. ~ Undoes(m, whole)
      <3>1. m.op = "delete"
        BY <1>5, <1>8, <2>1 DEF Parts, Delete
      <3> QED BY <2>1, <3>1 DEF Undoes
    <2> QED BY <1>2, <1>4, <1>5, <1>8, <2>2, AchievedStays
  <1> QED BY <1>6, <1>7, <1>8

----------------------------------------------------------------------------
(* Exit code zero.                                                         *)

DoneBefore(cmd, n, config) ==
    \A i \in DOMAIN Program(cmd) : i < n => Achieved(Program(cmd)[i], config)

(* A command at work, with a session and without an error. *)
Working(s) ==
    /\ s \in sessions /\ pc[s] \in {"work", "close"} /\ ~ failed[s]
    /\ Uncontested(s)

ExitInvOf(s) ==
    /\ pc[s] \notin {"idle", "close"} => ~ failed[s]
    /\ pc[s] # "idle" /\ ~ failed[s] => late[s] = {}
    /\ pc[s] \in {"certificate", "key"} => Cmd(s).do = "status"
    /\ pc[s] = "close" /\ ~ failed[s] => Len(Program(Cmd(s))) < step[s]
    /\ Working(s) => DoneBefore(Cmd(s), step[s], running)
    /\ Working(s) /\ pc[s] = "close" /\ Cmd(s).write => DoneBefore(Cmd(s), step[s], startup)

ExitInv == \A s \in Shells : ExitInvOf(s)

(* Nothing that any shell may have sent so far undoes the work of an       *)
(* uncontested command, its own requests of earlier attempts included.     *)
LEMMA DoneStays ==
    ASSUME TypeInv, NEW s \in Shells, Cmd(s) \in Command, Uncontested(s),
           NEW q \in Shells, NEW m, Sent(q, m), running' \in Results(running, m),
           NEW i \in DOMAIN Program(Cmd(s)), Achieved(Program(Cmd(s))[i], running)
    PROVE  Achieved(Program(Cmd(s))[i], running')
  <1>1. PICK k \in DOMAIN Scripts[q] : k <= line[q] /\ From(Scripts[q][k], m)
    BY DEF Sent
  <1>2. running \in Config /\ Scripts[q][k] \in Command /\ m \in Message
    BY <1>1, LineTyped, SentTyped DEF TypeInv, TypeOK
  <1>3. CASE q = s /\ k = line[s]
    BY <1>1, <1>2, <1>3, RepeatSpares DEF Cmd
  <1>4. CASE ~ (q = s /\ k = line[s])
    <2>1. q = s => k < line[s]
      BY <1>1, <1>4, LineTyped
    <2> DEFINE other == Scripts[q][k]
    <2>2. other \in Command /\ ~ Disturbs(other, Cmd(s))
      BY <1>2, <2>1 DEF Uncontested
    <2>3. From(other, m)
      BY <1>1
    <2> HIDE DEF other
    <2>4. PICK j \in DOMAIN Program(other) : m = Program(other)[j] \/ m \in Parts(Program(other)[j])
      BY <2>3 DEF From
    <2> DEFINE r == Program(Cmd(s))[i]
               whole == Program(other)[j]
    <2>5. ~ Undoes(whole, r) /\ r \in Message /\ whole \in Message
      BY <2>2, ProgramTyped DEF Disturbs
    <2>6. Achieved(r, running) /\ (m = whole \/ m \in Parts(whole))
      BY <2>4
    <2> HIDE DEF r, whole
    <2>7. Achieved(r, running')
      BY <1>2, <2>5, <2>6, PartUndoes, AchievedStays
    <2> QED BY <2>7 DEF r
  <1> QED BY <1>3, <1>4

LEMMA UncontestedStays ==
    ASSUME NEW q, Cmd(q)' = Cmd(q), line'[q] = line[q]
    PROVE  Uncontested(q)' <=> Uncontested(q)
  BY DEF Uncontested

(* The same command, as far in its program, in the next configurations. *)
LEMMA DoneNext ==
    ASSUME NEW q, Cmd(q)' = Cmd(q), step'[q] = step[q]
    PROVE  /\ DoneBefore(Cmd(q), step[q], running)' <=> DoneBefore(Cmd(q), step[q], running')
           /\ DoneBefore(Cmd(q), step[q], startup)' <=> DoneBefore(Cmd(q), step[q], startup')
  BY DEF DoneBefore

(* A shell stays where it is, and what it has done stays done. *)
RestsHere(q) ==
    /\ pc'[q] = pc[q] /\ line'[q] = line[q] /\ step'[q] = step[q]
    /\ late'[q] \subseteq late[q] /\ failed'[q] = failed[q]
    /\ q \in sessions' => q \in sessions
    /\ Working(q) /\ DoneBefore(Cmd(q), step[q], running) =>
          DoneBefore(Cmd(q), step[q], running')

LEMMA ExitRest ==
    ASSUME NEW q, ExitInvOf(q), RestsHere(q), startup' \in {startup, running}
    PROVE  ExitInvOf(q)'
  <1>1. /\ Cmd(q)' = Cmd(q) /\ step'[q] = step[q] /\ pc'[q] = pc[q] /\ line'[q] = line[q]
        /\ late'[q] \subseteq late[q] /\ failed'[q] = failed[q]
    BY DEF Cmd, RestsHere
  <1>3. Working(q)' => Working(q)
    BY <1>1, UncontestedStays DEF Working, RestsHere
  <1>4. Working(q)' => DoneBefore(Cmd(q), step[q], running)'
    BY <1>1, <1>3, DoneNext DEF ExitInvOf, RestsHere
  <1>5. Working(q)' /\ pc'[q] = "close" /\ Cmd(q)'.write => DoneBefore(Cmd(q), step[q], startup)'
    <2> SUFFICES ASSUME Working(q)', pc'[q] = "close", Cmd(q)'.write
                 PROVE  DoneBefore(Cmd(q), step[q], startup')
      BY <1>1, DoneNext
    <2>1. DoneBefore(Cmd(q), step[q], running) /\ DoneBefore(Cmd(q), step[q], startup)
      BY <1>1, <1>3 DEF ExitInvOf
    <2> QED BY <2>1
  <1> QED BY <1>1, <1>4, <1>5 DEF ExitInvOf

(* A step of shell s, and only the running configuration is saved. *)
LEMMA ExitStep ==
    ASSUME ExitInv, NEW s \in Shells, \A q \in Shells \ {s} : RestsHere(q),
           startup' \in {startup, running}, ExitInvOf(s)'
    PROVE  ExitInv'
  BY ExitRest DEF ExitInv

(* A step that leaves the configurations and what is late alone. *)
LEMMA ExitQuiet ==
    ASSUME ExitInv, TypeInv, NEW s \in Shells, UNCHANGED <<running, startup>>,
           \A q \in Shells \ {s} :
              /\ pc'[q] = pc[q] /\ line'[q] = line[q] /\ step'[q] = step[q]
              /\ late'[q] = late[q] /\ failed'[q] = failed[q]
              /\ q \in sessions' => q \in sessions,
           pc'[s] = "idle" \/ (pc'[s] = "close" /\ failed'[s])
             \/ /\ ~ failed'[s] /\ late'[s] = {} /\ Cmd(s)' = Cmd(s)
                /\ step'[s] \in Nat \ {0} /\ Cmd(s) \in Command
                /\ pc'[s] \in {"certificate", "key"} => Cmd(s).do = "status"
                /\ pc'[s] = "close" => Program(Cmd(s)) = <<>>
                /\ pc'[s] = "work" => step'[s] = 1
    PROVE  ExitInv'
  <1>1. ExitInvOf(s)'
    <2>2. CASE pc'[s] = "idle" \/ (pc'[s] = "close" /\ failed'[s])
      BY <2>2 DEF ExitInvOf, Working
    <2>3. CASE /\ ~ failed'[s] /\ late'[s] = {} /\ Cmd(s)' = Cmd(s)
               /\ step'[s] \in Nat \ {0} /\ Cmd(s) \in Command
               /\ pc'[s] \in {"certificate", "key"} => Cmd(s).do = "status"
               /\ pc'[s] = "close" => Program(Cmd(s)) = <<>>
               /\ pc'[s] = "work" => step'[s] = 1
      <3>1. pc'[s] \in {"work", "close"} => \A i \in DOMAIN Program(Cmd(s)) : ~ (i < step'[s])
        <4>1. Program(Cmd(s)) \in Seq(Message)
          BY <2>3, ProgramTyped
        <4>2. CASE pc'[s] = "work"
          BY <2>3, <4>1, <4>2
        <4>3. CASE pc'[s] = "close"
          BY <2>3, <4>3, EmptySeq
        <4> QED BY <4>2, <4>3
      <3>2. pc'[s] = "close" => Len(Program(Cmd(s))) < step'[s]
        BY <2>3, EmptySeq
      <3>3. Working(s)' => DoneBefore(Cmd(s), step[s], running)' /\ DoneBefore(Cmd(s), step[s], startup)'
        BY <2>3, <3>1 DEF Working, DoneBefore
      <3> QED BY <2>3, <3>2, <3>3 DEF ExitInvOf
    <2> QED BY <2>2, <2>3
  <1>2. \A q \in Shells \ {s} : RestsHere(q)
    BY DEF RestsHere, DoneBefore
  <1> QED BY <1>1, <1>2, ExitStep

LEMMA BeginExit == ASSUME ExitInv, TypeInv, NEW s \in Shells, Begin(s) PROVE ExitInv'
  <1>1. /\ UNCHANGED <<running, startup, sessions, line>>
        /\ pc' = [pc EXCEPT ![s] = "auth"] /\ failed' = [failed EXCEPT ![s] = FALSE]
        /\ late' = [late EXCEPT ![s] = {}] /\ step' = [step EXCEPT ![s] = 1]
    BY DEF Begin, Goto
  <1>2. /\ pc'[s] = "auth" /\ ~ failed'[s] /\ late'[s] = {} /\ step'[s] = 1
        /\ \A q \in Shells \ {s} : /\ pc'[q] = pc[q] /\ step'[q] = step[q]
                                   /\ late'[q] = late[q] /\ failed'[q] = failed[q]
    BY <1>1 DEF TypeInv, TypeOK
  <1>3. Cmd(s)' = Cmd(s) /\ Cmd(s) \in Command
    <2>1. Scripts[s] \in Seq(Command) /\ line[s] \in Nat \ {0}
      BY ScriptAssumption DEF TypeInv, TypeOK
    <2>2. line[s] \in DOMAIN Scripts[s]
      BY <2>1 DEF Begin
    <2> QED BY <1>1, <2>2, ScriptTyped DEF Cmd
  <1>4. UNCHANGED <<running, startup>>
        /\ \A q \in Shells \ {s} :
              /\ pc'[q] = pc[q] /\ line'[q] = line[q] /\ step'[q] = step[q]
              /\ late'[q] = late[q] /\ failed'[q] = failed[q]
              /\ q \in sessions' => q \in sessions
    BY <1>1, <1>2
  <1>5. /\ ~ failed'[s] /\ late'[s] = {} /\ Cmd(s)' = Cmd(s)
        /\ step'[s] \in Nat \ {0} /\ Cmd(s) \in Command
        /\ pc'[s] \notin {"certificate", "key", "close", "work"}
    BY <1>2, <1>3
  <1> QED BY <1>4, <1>5, ExitQuiet

(* The command of a shell that is not at the prompt. *)
LEMMA CommandAtWork ==
    ASSUME TypeInv, NEW s \in Shells, pc[s] # "idle"
    PROVE  Cmd(s) \in Command /\ Program(Cmd(s)) \in Seq(Message) /\ step[s] \in Nat \ {0}
  <1>1. Cmd(s) \in Command
    BY ScriptTyped DEF TypeInv, TypeOK, Cmd
  <1> QED BY <1>1, ProgramTyped DEF TypeInv, TypeOK

LEMMA SessionExit ==
    ASSUME ExitInv, TypeInv, NEW s \in Shells, StartSession(s) \/ VerifyCompatibility(s)
    PROVE  ExitInv'
  <1>1. pc[s] \in {"auth", "version"} /\ step[s] = 1 /\ late[s] = {} /\ ~ failed[s]
    BY DEF StartSession, VerifyCompatibility, TypeInv, Flow, ExitInv, ExitInvOf
  <1>2. Cmd(s) \in Command
    BY <1>1, CommandAtWork
  <1>3. CASE StartSession(s)
    <2>1. UNCHANGED <<running, startup, late, step, failed>>
          /\ \A q \in Shells \ {s} : /\ pc'[q] = pc[q] /\ line'[q] = line[q]
                                     /\ q \in sessions' => q \in sessions
      BY <1>3 DEF StartSession, Exit, Goto, TypeInv, TypeOK
    <2>2. \/ pc'[s] = "idle"
          \/ Cmd(s)' = Cmd(s) /\ (pc'[s] = "close" => Program(Cmd(s)) = <<>>)
             /\ pc'[s] \notin {"certificate", "key"}
      BY <1>3 DEF StartSession, Exit, Goto, TypeInv, TypeOK, Start, Cmd
    <2> QED BY <1>1, <1>2, <2>1, <2>2, ExitQuiet
  <1>4. CASE VerifyCompatibility(s)
    <2>1. UNCHANGED <<running, startup, sessions, late, line, step>>
          /\ \A q \in Shells \ {s} : pc'[q] = pc[q] /\ failed'[q] = failed[q]
      BY <1>4 DEF VerifyCompatibility, Fail, Goto, TypeInv, TypeOK, appliance
    <2>2. \/ pc'[s] = "close" /\ failed'[s]
          \/ ~ failed'[s] /\ (pc'[s] = "close" => Program(Cmd(s)) = <<>>)
             /\ pc'[s] \notin {"certificate", "key"}
      BY <1>1, <1>4 DEF VerifyCompatibility, Fail, Goto, TypeInv, TypeOK, Start
    <2>3. Cmd(s)' = Cmd(s)
      BY <2>1 DEF Cmd
    <2> QED BY <1>1, <1>2, <2>1, <2>2, <2>3, ExitQuiet
  <1> QED BY <1>3, <1>4

(* A status command sends no request of a program. *)
LEMMA StatusProgram ==
    ASSUME NEW cmd \in Command, cmd.do = "status"
    PROVE  Program(cmd) = <<>>
  <1>1. Changes(cmd) = <<>> /\ Only(cmd.write, WriteMemory) = <<>>
    BY DEF Changes, Only, Command
  <1> QED BY <1>1, EmptySeq, ConcatEmptySeq DEF Program

LEMMA LookExit ==
    ASSUME ExitInv, TypeInv, NEW s \in Shells,
           ReadTemplate(s) \/ FindCertificate(s) \/ FindKey(s)
    PROVE  ExitInv'
  <1>1. pc[s] \in {"template", "certificate", "key"}
    BY DEF ReadTemplate, FindCertificate, FindKey, Blind
  <1>2. late[s] = {} /\ ~ failed[s] /\ Cmd(s).do = "status"
    BY <1>1 DEF ExitInv, ExitInvOf, TypeInv, Flow
  <1>3. Cmd(s) \in Command /\ step[s] \in Nat \ {0}
    BY <1>1, CommandAtWork
  <1>4. UNCHANGED <<running, startup, sessions, late, line, step>>
        /\ \A q \in Shells \ {s} : pc'[q] = pc[q] /\ failed'[q] = failed[q]
    BY DEF ReadTemplate, FindCertificate, FindKey, Find, Look, Blind, Fail, Goto, TypeInv, TypeOK, appliance
  <1>5. \/ pc'[s] = "close" /\ failed'[s]
        \/ ~ failed'[s] /\ pc'[s] \in {"certificate", "key", "close"}
    BY <1>2 DEF ReadTemplate, FindCertificate, FindKey, Find, Look, Blind, Fail, Goto, TypeInv, TypeOK
  <1>6. Cmd(s)' = Cmd(s) /\ Program(Cmd(s)) = <<>>
    BY <1>2, <1>3, <1>4, StatusProgram DEF Cmd
  <1> QED BY <1>2, <1>3, <1>4, <1>5, <1>6, ExitQuiet

LEMMA KillExit == ASSUME ExitInv, TypeInv, NEW s \in Shells, Kill(s) PROVE ExitInv'
  <1>1. /\ UNCHANGED <<running, startup, sessions, step, failed>>
        /\ pc' = [pc EXCEPT ![s] = "idle"]
        /\ \A q \in Shells \ {s} : line'[q] = line[q]
    BY DEF Kill, Exit, Goto, TypeInv, TypeOK
  <1>2. pc'[s] = "idle" /\ \A q \in Shells \ {s} : pc'[q] = pc[q] /\ late'[q] = late[q]
    BY <1>1 DEF Kill, TypeInv, TypeOK
  <1> QED BY <1>1, <1>2, ExitQuiet

LEMMA CloseExit == ASSUME ExitInv, TypeInv, NEW s \in Shells, Close(s) PROVE ExitInv'
  <1>1. /\ UNCHANGED <<running, startup, step, failed>>
        /\ pc' = [pc EXCEPT ![s] = "idle"]
        /\ sessions' \subseteq sessions
        /\ late' \in {late, [late EXCEPT ![s] = {}]}
        /\ \A q \in Shells \ {s} : line'[q] = line[q]
    BY DEF Close, Exit, Goto, TypeInv, TypeOK
  <1>2. pc'[s] = "idle" /\ \A q \in Shells \ {s} : pc'[q] = pc[q] /\ late'[q] = late[q]
    BY <1>1 DEF TypeInv, TypeOK
  <1> QED BY <1>1, <1>2, ExitQuiet

(* What a request of some shell leaves of the work of any. *)
LEMMA ProcessSpares ==
    ASSUME TypeInv, NEW p \in Shells, NEW m, Sent(p, m), Process(m), NEW q \in Shells,
           Working(q), DoneBefore(Cmd(q), step[q], running)
    PROVE  DoneBefore(Cmd(q), step[q], running')
  <1>1. Cmd(q) \in Command /\ Uncontested(q) /\ running' \in Results(running, m)
    BY CommandAtWork DEF Working, Process
  <1> QED BY <1>1, DoneStays DEF DoneBefore

(* A request that was in doubt is carried out. *)
LEMMA DeliverExit ==
    ASSUME ExitInv, TypeInv, NEW p \in Shells, NEW m, Sent(p, m), Process(m),
           UNCHANGED <<sessions, pc, line, step, failed>>,
           \A q \in Shells : late'[q] \subseteq late[q]
    PROVE  ExitInv'
  <1>1. startup' \in {startup, running}
    BY DEF Process
  <1>2. ASSUME NEW q \in Shells PROVE RestsHere(q)
    <2>1. Working(q) /\ DoneBefore(Cmd(q), step[q], running) => DoneBefore(Cmd(q), step[q], running')
      BY ProcessSpares
    <2> QED BY <2>1 DEF RestsHere
  <1> QED BY <1>1, <1>2, ExitRest DEF ExitInv

LEMMA LandExit == ASSUME ExitInv, Doubts, TypeInv, NEW s \in Shells, Land(s) PROVE ExitInv'
  <1>1. PICK m \in late[s] : Process(m) /\ late' = [late EXCEPT ![s] = @ \ {m}]
    BY DEF Land
  <1>2. Sent(s, m)
    BY SentNow DEF Doubts
  <1>3. UNCHANGED <<sessions, pc, line, step, failed>>
    BY DEF Land
  <1>4. \A q \in Shells : late'[q] \subseteq late[q]
    BY <1>1 DEF TypeInv, TypeOK
  <1> QED BY <1>1, <1>2, <1>3, <1>4, DeliverExit

LEMMA LandStrayExit == ASSUME ExitInv, Doubts, TypeInv, LandStray PROVE ExitInv'
  <1>1. PICK m \in stray : Process(m)
    BY DEF LandStray
  <1>2. PICK p \in Shells : Sent(p, m)
    BY DEF Doubts
  <1>3. UNCHANGED <<sessions, late, pc, line, step, failed>>
    BY DEF LandStray
  <1> QED BY <1>1, <1>2, <1>3, DeliverExit

LEMMA RebootExit == ASSUME ExitInv, TypeInv, Reboot PROVE ExitInv'
  <1>1. sessions' = {} /\ UNCHANGED <<pc, line, step, failed>> /\ \A q \in Shells : late'[q] = {}
    BY DEF Reboot
  <1>2. ASSUME NEW q \in Shells PROVE ExitInvOf(q)'
    <2>1. ExitInvOf(q) /\ Cmd(q)' = Cmd(q)
      BY <1>1 DEF ExitInv, Cmd
    <2>2. ~ Working(q)'
      BY <1>1 DEF Working
    <2> QED BY <1>1, <2>1, <2>2 DEF ExitInvOf
  <1> QED BY <1>2 DEF ExitInv

LEMMA CarriedExit ==
    ASSUME ExitInv, TypeInv, NEW s \in Shells, Request(s), Carried(s)
    PROVE  ExitInv'
  <1> DEFINE prog == Program(Cmd(s))
             r == prog[step[s]]
  <1>1. /\ pc[s] = "work" /\ Cmd(s) \in Command /\ r \in Message
        /\ prog \in Seq(Message) /\ step[s] \in DOMAIN prog
        /\ running \in Config
    BY RequestCases, RequestTyped, ProgramTyped DEF TypeInv, TypeOK
  <1>2. /\ s \in sessions /\ ~ failed[s] /\ late[s] = {}
        /\ (Uncontested(s) => DoneBefore(Cmd(s), step[s], running))
    BY <1>1 DEF Carried, ExitInv, ExitInvOf, Working
  <1>3. /\ running' \in Results(running, r)
        /\ startup' = IF r.op = "write" THEN running ELSE startup
    BY DEF Carried, Process
  <1>4. /\ UNCHANGED <<sessions, line, late, failed>>
        /\ step' = [step EXCEPT ![s] = step[s] + 1]
        /\ pc' = [pc EXCEPT ![s] = IF step[s] = Len(prog) THEN "close" ELSE "work"]
    BY RequestCases DEF Carried, Goto
  <1>5. /\ step'[s] = step[s] + 1
        /\ pc'[s] = IF step[s] = Len(prog) THEN "close" ELSE "work"
        /\ \A q \in Shells \ {s} : pc'[q] = pc[q] /\ step'[q] = step[q]
    BY <1>4 DEF TypeInv, TypeOK
  <1>6. Cmd(s)' = Cmd(s)
    BY <1>4 DEF Cmd
  <1>7. ASSUME Uncontested(s), NEW i \in DOMAIN prog, i < step[s] + 1
        PROVE  Achieved(prog[i], running')
    <2>1. i \in Nat /\ step[s] \in Nat
      BY <1>1
    <2>2. CASE i = step[s]
      <3> HIDE DEF r
      <3>1. Achieved(r, running')
        BY <1>1, <1>3, OwnAchieved
      <3> QED BY <2>2, <3>1 DEF r
    <2>3. CASE i < step[s]
      <3>1. Achieved(prog[i], running) /\ prog[i] \in Message
        BY <1>1, <1>2, <1>7, <2>3 DEF DoneBefore
      <3>2. ~ Undoes(r, prog[i])
        BY <1>1, <2>1, <2>3, OwnOrder
      <3> HIDE DEF r
      <3>3. Achieved(prog[i], running')
        <4> HIDE DEF prog
        <4> QED BY <1>1, <1>3, <3>1, <3>2, AchievedStays
      <3> QED BY <3>3
    <2> QED BY <1>7, <2>1, <2>2, <2>3
  <1>8. ASSUME Cmd(s).write, pc'[s] = "close" PROVE running' = running /\ startup' = running
    <2>1. r = WriteMemory
      BY <1>1, <1>5, <1>8, ProgramElement
    <2> HIDE DEF r
    <2> QED BY <1>3, <2>1 DEF Results, WriteMemory
  <1>9. Uncontested(s)' <=> Uncontested(s)
    BY <1>4, <1>6, UncontestedStays
  <1>10. Working(s)' => DoneBefore(Cmd(s), step[s], running)'
    BY <1>5, <1>6, <1>7, <1>9 DEF Working, DoneBefore
  <1>11. Working(s)' /\ pc'[s] = "close" /\ Cmd(s)'.write => DoneBefore(Cmd(s), step[s], startup)'
    <2> SUFFICES ASSUME Working(s)', pc'[s] = "close", Cmd(s)'.write
                 PROVE  DoneBefore(Cmd(s), step[s], startup)'
      OBVIOUS
    <2>1. startup' = running'
      BY <1>6, <1>8
    <2>2. \A i \in DOMAIN prog : i < step[s] + 1 => Achieved(prog[i], startup')
      BY <1>7, <1>9, <2>1 DEF Working
    <2> QED BY <1>5, <1>6, <2>2 DEF DoneBefore
  <1>12. /\ pc'[s] \in {"work", "close"} /\ ~ failed'[s] /\ late'[s] = {}
         /\ (pc'[s] = "close" => Len(prog) < step'[s])
    BY <1>1, <1>2, <1>4, <1>5
  <1>13. ExitInvOf(s)'
    BY <1>6, <1>10, <1>11, <1>12 DEF ExitInvOf
  <1>14. ASSUME NEW q \in Shells \ {s}, Working(q), DoneBefore(Cmd(q), step[q], running)
         PROVE  DoneBefore(Cmd(q), step[q], running')
    <2>1. Sent(s, r) /\ Process(r)
      BY <1>1, NextFrom, SentNow DEF Carried
    <2> HIDE DEF r
    <2> QED BY <1>14, <2>1, ProcessSpares
  <1>15. startup' \in {startup, running}
    BY <1>3
  <1>16. \A q \in Shells \ {s} : RestsHere(q)
    BY <1>4, <1>5, <1>14 DEF RestsHere
  <1> QED BY <1>13, <1>15, <1>16, ExitStep

LEMMA RequestExit == ASSUME ExitInv, TypeInv, NEW s \in Shells, Request(s) PROVE ExitInv'
  <1> DEFINE r == Program(Cmd(s))[step[s]]
  <1>1. pc[s] = "work" /\ UNCHANGED <<sessions, line>>
    BY RequestCases
  <1>2. CASE Carried(s)
    BY <1>2, CarriedExit
  <1>3. CASE ~ Carried(s)
    <2>1. Fail(s) /\ UNCHANGED <<running, startup, step>>
          /\ (late' = late \/ late' = [late EXCEPT ![s] = IF s \in sessions THEN Parts(r) ELSE late[s]])
      BY <1>3, RequestCases DEF Lost
    <2>2. /\ pc'[s] = "close" /\ failed'[s]
          /\ \A q \in Shells \ {s} : pc'[q] = pc[q] /\ failed'[q] = failed[q]
      BY <2>1 DEF Fail, Goto, TypeInv, TypeOK
    <2> HIDE DEF r
    <2>3. \A q \in Shells \ {s} : late'[q] = late[q]
      BY <2>1 DEF TypeInv, TypeOK
    <2> QED BY <1>1, <2>1, <2>2, <2>3, ExitQuiet
  <1> QED BY <1>2, <1>3

LEMMA NextExit == ASSUME ExitInv, Doubts, TypeInv, [Next]_vars PROVE ExitInv'
  <1>1. ASSUME NEW s \in Shells, Run(s) \/ Kill(s) \/ Land(s) PROVE ExitInv'
    BY <1>1, BeginExit, SessionExit, RequestExit, CloseExit, LookExit, KillExit, LandExit DEF Run
  <1>2. CASE LandStray
    BY <1>2, LandStrayExit
  <1>3. CASE Reboot
    BY <1>3, RebootExit
  <1>4. CASE UNCHANGED vars
    <2>1. ASSUME NEW q \in Shells PROVE RestsHere(q)
      BY <1>4 DEF vars, appliance, RestsHere, DoneBefore
    <2> QED BY <1>4, <2>1, ExitRest DEF ExitInv, vars, appliance
  <1> QED BY <1>1, <1>2, <1>3, <1>4 DEF Next, Finished

(* Only Close gives the exit code zero. *)
LEMMA ZeroFromClose ==
    ASSUME TypeInv, [Next]_vars, NEW s \in Shells, exit[s] # "zero", exit'[s] = "zero"
    PROVE  pc[s] = "close" /\ s \in sessions /\ ~ failed[s]
  <1>1. ASSUME NEW q \in Shells, Begin(q) \/ StartSession(q) \/ Kill(q) PROVE exit'[s] # "zero"
    BY <1>1 DEF Begin, StartSession, Kill, Exit, TypeInv, TypeOK
  <1>2. ASSUME NEW q \in Shells,
               VerifyCompatibility(q) \/ Request(q) \/ ReadTemplate(q) \/ FindCertificate(q)
                 \/ FindKey(q) \/ Land(q)
        PROVE  exit' = exit
    BY <1>2 DEF VerifyCompatibility, Request, ReadTemplate, FindCertificate, FindKey, Find, Look, Blind, Land
  <1>3. ASSUME NEW q \in Shells, Close(q)
        PROVE  pc[s] = "close" /\ s \in sessions /\ ~ failed[s]
    <2>1. PICK code : Exit(q, code)
      BY <1>3 DEF Close
    <2>2. q = s
      BY <2>1 DEF Exit, TypeInv, TypeOK
    <2> QED BY <1>3, <2>2 DEF Close, Exit, TypeInv, TypeOK
  <1>4. CASE LandStray \/ Reboot \/ UNCHANGED vars
    BY <1>4 DEF LandStray, Reboot, vars
  <1> QED BY <1>1, <1>2, <1>3, <1>4 DEF Next, Run, Finished

(* A command that is about to exit with zero has done what it promises. *)
LEMMA CloseDone ==
    ASSUME ExitInv, TypeInv, NEW s \in Shells, pc[s] = "close", Working(s)
    PROVE  Fulfilled(Cmd(s), running) /\ (Cmd(s).write => Fulfilled(Cmd(s), startup))
  <1>2. Cmd(s) \in Command /\ Program(Cmd(s)) \in Seq(Message) /\ running \in Config /\ startup \in Config
    BY CommandAtWork DEF TypeInv, TypeOK
  <1>3. /\ Len(Program(Cmd(s))) < step[s] /\ DoneBefore(Cmd(s), step[s], running)
        /\ (Cmd(s).write => DoneBefore(Cmd(s), step[s], startup))
    BY DEF ExitInv, ExitInvOf, Working
  <1>4. \A i \in DOMAIN Program(Cmd(s)) : i < step[s]
    <2>1. step[s] \in Nat
      BY DEF TypeInv, TypeOK
    <2> QED BY <1>2, <1>3, <2>1
  <1>5. Fulfilled(Cmd(s), running)
    BY <1>2, <1>3, <1>4, AllAchieved DEF DoneBefore
  <1>6. Cmd(s).write => Fulfilled(Cmd(s), startup)
    BY <1>2, <1>3, <1>4, AllAchieved DEF DoneBefore
  <1> QED BY <1>5, <1>6

LEMMA StepDone ==
    ASSUME ExitInv, TypeInv, [Next]_vars, NEW s \in Shells,
           exit[s] # "zero", exit'[s] = "zero", Uncontested(s)
    PROVE  Fulfilled(Cmd(s), running) /\ (Cmd(s).write => Fulfilled(Cmd(s), startup))
  <1>1. pc[s] = "close" /\ Working(s)
    BY ZeroFromClose DEF Working
  <1> QED BY <1>1, CloseDone

LEMMA InitExit == Init => ExitInv
  <1> SUFFICES ASSUME Init PROVE ExitInv
    OBVIOUS
  <1>1. \A s \in Shells : pc[s] = "idle" /\ late[s] = {}
    BY DEF Init
  <1> QED BY <1>1 DEF ExitInv, ExitInvOf, Working

(* Exit code zero, for any shells and scripts: what the command promises   *)
(* is in the running configuration when it exits, and in the startup       *)
(* configuration unless that was declined, if no command of another shell  *)
(* and no earlier one of the script undoes it, however late a request of   *)
(* any of them, or of an earlier attempt, is carried out.                  *)
THEOREM ExitZeroHolds == Spec => ExitZeroIsDone
  <1>1. Init => TypeInv /\ Doubts /\ ExitInv
    BY InitTyped, InitDoubts, InitExit
  <1>2. TypeInv /\ Doubts /\ ExitInv /\ [Next]_vars => (TypeInv /\ Doubts /\ ExitInv)'
    BY NextTyped, NextDoubts, NextExit
  <1>3. TypeInv /\ ExitInv /\ [Next]_vars =>
            [\A s \in Shells :
                exit[s] # "zero" /\ exit'[s] = "zero" /\ Uncontested(s) =>
                    /\ Fulfilled(Cmd(s), running)
                    /\ Cmd(s).write => Fulfilled(Cmd(s), startup)]_vars
    BY StepDone
  <1> QED BY <1>1, <1>2, <1>3, PTL DEF Spec, ExitZeroIsDone

----------------------------------------------------------------------------
(* Rotations by hand.                                                      *)

(* No other shell changes template t. *)
Alone(s, t) ==
    \A q \in Shells \ {s} : \A i \in DOMAIN Scripts[q] :
        Scripts[q][i].do \in {"bind", "unbind"} => Scripts[q][i].tmpl # t

(* Command j of shell s binds b to template t, saves, and no other command *)
(* takes the binding away.                                                 *)
Serves(s, j, t, b) ==
    /\ Scripts[s][j] = [do |-> "bind", tmpl |-> t, binding |-> b, write |-> TRUE]
    /\ Alone(s, t)
    /\ \A i \in DOMAIN Scripts[s] \ {j} :
          /\ Scripts[s][i].do = "bind" => Scripts[s][i].tmpl # t
          /\ Scripts[s][i].do = "unbind" => Scripts[s][i].tmpl # t \/ Scripts[s][i].cert # b.cert

(* Command j of shell s unbinds a certificate from template t, saves, and  *)
(* no other command binds it there.                                        *)
Retires(s, j, t, cert) ==
    /\ Scripts[s][j] = [do |-> "unbind", tmpl |-> t, cert |-> cert, write |-> TRUE]
    /\ Alone(s, t)
    /\ \A i \in DOMAIN Scripts[s] \ {j} : Scripts[s][i].do = "bind" =>
          Scripts[s][i].tmpl # t \/ Scripts[s][i].binding.cert # cert

(* The bindings template t may ever have, and what else it refers to. *)
Bindable(t) ==
    (UNION {config.tmpl[t].certs : config \in InitialConfigs})
        \cup {cmd.binding : cmd \in {c \in Issued : c.do = "bind" /\ c.tmpl = t}}

Extras(t) == UNION {config.tmpl[t].extra : config \in InitialConfigs}

Whole(config) == \A t \in Templates : TemplateFiles(config.tmpl[t]) \subseteq Present(config)

(* Rotations by hand in good order, by any number of shells: the appliance *)
(* starts without dangling references, a certificate is unbound only after *)
(* another one was bound for good, and a file is deleted only after every  *)
(* binding that may use it was unbound for good.                           *)
Orderly ==
    /\ \A config \in InitialConfigs : Whole(config)
    /\ \A s \in Shells : \A k \in DOMAIN Scripts[s] :
          LET cmd == Scripts[s][k] IN
          /\ cmd.do = "unbind" =>
                \E j \in DOMAIN Scripts[s] : \E b \in Binding :
                    j < k /\ b.cert # cmd.cert /\ Serves(s, j, cmd.tmpl, b)
          /\ cmd.do = "delete" =>
                \A f \in Deleted(cmd) : \A t \in Templates :
                    /\ f \notin Extras(t)
                    /\ \A b \in Bindable(t) : f \in FilesOf(b) =>
                          \E j \in DOMAIN Scripts[s] : j < k /\ Retires(s, j, t, b.cert)

----------------------------------------------------------------------------
(* What a command that has exited with zero leaves in place.               *)

Stands(config, s, j) ==
    \A t \in Templates :
        /\ \A b \in Binding : Serves(s, j, t, b) => b \in config.tmpl[t].certs
        /\ \A cert \in Names : Retires(s, j, t, cert) => ~ Bound(config.tmpl[t], cert)

(* What was bound or unbound for good stays so, in both configurations. *)
Standing ==
    \A s \in Shells : \A j \in DOMAIN Scripts[s] :
        j < line[s] => Stands(running, s, j) /\ Stands(startup, s, j)

Bounded(config) ==
    \A t \in Templates :
        config.tmpl[t].certs \subseteq Bindable(t) /\ config.tmpl[t].extra \subseteq Extras(t)

(* Nothing dangles, and only known bindings are there. *)
Kept(config) == Whole(config) /\ Bounded(config)

HandInv == Standing /\ Kept(running) /\ Kept(startup)

(* A request that some shell may have sent undoes nothing that is to stand. *)
LEMMA StandsAfter ==
    ASSUME NEW config \in Config, NEW q \in Shells, NEW m, Sent(q, m),
           NEW after \in Results(config, m), NEW s \in Shells, NEW j \in DOMAIN Scripts[s],
           Stands(config, s, j)
    PROVE  Stands(after, s, j)
  <1>0. PICK k \in DOMAIN Scripts[q] : From(Scripts[q][k], m)
    BY DEF Sent
  <1> DEFINE cmd == Scripts[q][k]
  <1>1. cmd \in Command /\ m \in Message
    BY <1>0, ScriptTyped, FromTyped
  <1>2. /\ m.op = "bind" => cmd.do = "bind" /\ m.tmpl = cmd.tmpl /\ m.binding = cmd.binding
        /\ m.op = "unbind" => cmd.do = "unbind" /\ m.tmpl = cmd.tmpl /\ m.cert = cmd.cert
    BY <1>0, <1>1, FromTyped
  <1>3. ASSUME NEW t \in Templates, NEW b \in Binding, Serves(s, j, t, b)
        PROVE  b \in after.tmpl[t].certs
    <2>1. b \in config.tmpl[t].certs
      BY <1>3 DEF Stands
    <2>2. CASE q = s /\ k = j
      <3>1. cmd = [do |-> "bind", tmpl |-> t, binding |-> b, write |-> TRUE]
        BY <1>3, <2>2 DEF Serves
      <3> HIDE DEF cmd
      <3>2. cmd.do = "bind" /\ cmd.tmpl = t /\ cmd.binding = b
        BY <3>1
      <3>3. CASE m.op = "bind"
        BY <1>1, <1>2, <3>2, <3>3, OwnAchieved DEF Achieved
      <3>4. CASE m.op # "bind"
        BY <1>1, <1>2, <2>1, <3>2, <3>4, SlotAfter
      <3> QED BY <3>3, <3>4
    <2>3. CASE ~ (q = s /\ k = j)
      <3>1. /\ cmd.do = "bind" => cmd.tmpl # t
            /\ cmd.do = "unbind" => cmd.tmpl # t \/ cmd.cert # b.cert
        BY <1>3, <2>3 DEF Serves, Alone
      <3> HIDE DEF cmd
      <3> QED BY <1>1, <1>2, <2>1, <3>1, SlotAfter
    <2> QED BY <2>2, <2>3
  <1>4. ASSUME NEW t \in Templates, NEW cert \in Names, Retires(s, j, t, cert)
        PROVE  ~ Bound(after.tmpl[t], cert)
    <2>1. ~ Bound(config.tmpl[t], cert)
      BY <1>4 DEF Stands
    <2>2. m.op = "bind" => m.tmpl # t \/ m.binding.cert # cert
      <3>1. CASE q = s /\ k = j
        <4>1. cmd = [do |-> "unbind", tmpl |-> t, cert |-> cert, write |-> TRUE]
          BY <1>4, <3>1 DEF Retires
        <4> HIDE DEF cmd
        <4> QED BY <1>2, <4>1
      <3>2. CASE ~ (q = s /\ k = j)
        <4>1. cmd.do = "bind" => cmd.tmpl # t \/ cmd.binding.cert # cert
          BY <1>4, <3>2 DEF Retires, Alone
        <4> HIDE DEF cmd
        <4> QED BY <1>2, <4>1
      <3> QED BY <3>1, <3>2
    <2> HIDE DEF cmd
    <2>3. \A b \in after.tmpl[t].certs : b.cert # cert
      <3>1. CASE m.op = "bind" /\ m.tmpl = t
        BY <1>1, <2>1, <2>2, <3>1, SlotAfter DEF Bound
      <3>2. CASE m.op = "unbind" /\ m.tmpl = t
        BY <1>1, <2>1, <3>2, SlotAfter DEF Bound
      <3>3. CASE m.op \notin {"bind", "unbind"} \/ m.tmpl # t
        BY <1>1, <2>1, <3>3, SlotAfter DEF Bound
      <3> QED BY <3>1, <3>2, <3>3
    <2> QED BY <2>3 DEF Bound
  <1> QED BY <1>3, <1>4 DEF Stands

(* Nothing such a request does leaves a reference dangling. *)
LEMMA KeptAfter ==
    ASSUME Orderly, TypeInv, Standing, NEW q \in Shells, NEW m, Sent(q, m),
           Kept(running), running' \in Results(running, m)
    PROVE  /\ Kept(running')
           /\ m.op = "delete" => \A t \in Templates : m.files \cap TemplateFiles(running.tmpl[t]) = {}
  <1>0. PICK k \in DOMAIN Scripts[q] : k <= line[q] /\ From(Scripts[q][k], m)
    BY DEF Sent
  <1> DEFINE cmd == Scripts[q][k]
  <1>1. /\ cmd \in Command /\ cmd \in Issued /\ From(cmd, m) /\ m \in Message
        /\ running \in Config
    BY <1>0, ScriptTyped, FromTyped DEF TypeInv, TypeOK
  <1> HIDE DEF cmd
  <1>2. running' \in Config
    BY <1>1, ResultsTyped
  <1>3. Bounded(running')
    <2>1. ASSUME NEW t \in Templates
          PROVE  running'.tmpl[t].certs \subseteq Bindable(t) /\ running'.tmpl[t].extra \subseteq Extras(t)
      <3>1. running.tmpl[t].certs \subseteq Bindable(t) /\ running.tmpl[t].extra \subseteq Extras(t)
        BY DEF Kept, Bounded
      <3>2. m.op = "bind" /\ m.tmpl = t => m.binding \in Bindable(t)
        <4> SUFFICES ASSUME m.op = "bind", m.tmpl = t PROVE m.binding \in Bindable(t)
          OBVIOUS
        <4>1. cmd \in {c \in Issued : c.do = "bind" /\ c.tmpl = t} /\ m.binding = cmd.binding
          BY <1>1, FromTyped
        <4> DEFINE asked == {c2.binding : c2 \in {c \in Issued : c.do = "bind" /\ c.tmpl = t}}
        <4>2. m.binding \in asked
          BY <4>1
        <4>3. asked \subseteq Bindable(t)
          BY DEF Bindable
        <4> HIDE DEF asked
        <4> QED BY <4>2, <4>3
      <3> QED BY <1>1, <3>1, <3>2, SlotAfter
    <2> QED BY <2>1 DEF Bounded
  <1>4. ASSUME m.op = "delete", NEW t \in Templates
        PROVE  m.files \cap TemplateFiles(running.tmpl[t]) = {}
    <2> SUFFICES ASSUME NEW f \in m.files, f \in TemplateFiles(running.tmpl[t]) PROVE FALSE
      OBVIOUS
    <2>1. cmd.do = "delete" /\ f \in Deleted(cmd)
      BY <1>1, <1>4, FromTyped
    <2>2. /\ f \notin Extras(t)
          /\ \A b \in Bindable(t) : f \in FilesOf(b) =>
                \E j \in DOMAIN Scripts[q] : j < k /\ Retires(q, j, t, b.cert)
      BY <2>1 DEF Orderly, cmd
    <2>3. PICK b \in running.tmpl[t].certs : f \in FilesOf(b)
      BY <2>2 DEF TemplateFiles, Kept, Bounded
    <2>4. b \in Bindable(t) /\ b \in Binding
      BY <1>1 DEF Kept, Bounded, Config, Template
    <2>5. PICK j \in DOMAIN Scripts[q] : j < k /\ Retires(q, j, t, b.cert)
      BY <2>2, <2>3, <2>4
    <2>6. j < line[q]
      BY <1>0, <2>5, LineTyped
    <2>7. ~ Bound(running.tmpl[t], b.cert)
      BY <2>4, <2>5, <2>6 DEF Standing, Stands, Binding
    <2> QED BY <2>7 DEF Bound
  <1>5. Whole(running')
    <2>1. ASSUME NEW t \in Templates, NEW f \in TemplateFiles(running'.tmpl[t])
          PROVE  f \in Present(running')
      <3>0. TemplateFiles(running.tmpl[t]) \subseteq Present(running) /\ Present(running) \subseteq Stored
        BY DEF Kept, Whole, Present
      <3>1. f \in Present(running) /\ (m.op = "delete" => f \notin m.files)
        <4>1. CASE m.op = "bind" /\ m.tmpl = t
          <5>1. /\ FilesOf(m.binding) \subseteq Present(running)
                /\ running'.tmpl[t].certs \subseteq running.tmpl[t].certs \cup {m.binding}
                /\ running'.tmpl[t].extra = running.tmpl[t].extra
            BY <1>1, <4>1, SlotAfter
          <5> QED BY <3>0, <4>1, <5>1 DEF TemplateFiles
        <4>2. CASE m.op = "unbind" /\ m.tmpl = t
          <5>1. /\ running'.tmpl[t].certs \subseteq running.tmpl[t].certs
                /\ running'.tmpl[t].extra = running.tmpl[t].extra
            BY <1>1, <4>2, SlotAfter
          <5> QED BY <3>0, <4>2, <5>1 DEF TemplateFiles
        <4>3. CASE m.op \notin {"bind", "unbind"} \/ m.tmpl # t
          <5>1. running'.tmpl[t] = running.tmpl[t]
            BY <1>1, <4>3, SlotAfter
          <5> QED BY <1>4, <3>0, <5>1
        <4> QED BY <4>1, <4>2, <4>3
      <3>2. f \in Stored /\ running.files[f] # Absent
        BY <3>1 DEF Present
      <3>3. running'.files[f] # Absent
        <4>1. CASE m.op = "upload"
          <5>1. m.content # Absent
            BY <1>1, <4>1, Operations, AbsentAssumption
          <5> QED BY <1>1, <3>2, <4>1, <5>1, FilesAfter
        <4>2. CASE m.op = "delete"
          BY <1>1, <3>1, <3>2, <4>2, FilesAfter
        <4>3. CASE m.op \notin {"upload", "delete"}
          BY <1>1, <3>2, <4>3, FilesAfter
        <4> QED BY <4>1, <4>2, <4>3
      <3> QED BY <3>2, <3>3 DEF Present
    <2> QED BY <2>1 DEF Whole
  <1> QED BY <1>3, <1>4, <1>5 DEF Kept

(* The requests of a bind or unbind, beside write memory. *)
LEMMA BoundOnly ==
    ASSUME NEW cmd \in Command, cmd.do \in {"bind", "unbind"}, NEW r, From(cmd, r)
    PROVE  r.op \in {"bind", "unbind", "read", "write"}
  <1>1. PICK i \in DOMAIN Program(cmd) : r = Program(cmd)[i] \/ r \in Parts(Program(cmd)[i])
    BY DEF From
  <1> DEFINE whole == Program(cmd)[i]
  <1>2. whole \in {Bind(cmd.tmpl, cmd.binding), Unbind(cmd.tmpl, cmd.cert), ReadOnly, WriteMemory}
    BY ProgramElement, OtherChanges
  <1>3. r = whole \/ r \in Parts(whole)
    BY <1>1
  <1> HIDE DEF whole
  <1>4. whole.op \in {"bind", "unbind", "read", "write"}
    BY <1>2 DEF Bind, Unbind, ReadOnly, WriteMemory
  <1> QED BY <1>3, <1>4 DEF Parts

(* A bind or unbind that ends with zero stands from then on. *)
LEMMA EndStands ==
    ASSUME TypeInv, ExitInv, NEW s \in Shells, pc[s] = "close", s \in sessions, ~ failed[s],
           line[s] \in DOMAIN Scripts[s]
    PROVE  Stands(running, s, line[s]) /\ Stands(startup, s, line[s])
  <1> DEFINE cmd == Scripts[s][line[s]]
  <1>1. Cmd(s) = cmd /\ cmd \in Command
    BY ScriptTyped DEF Cmd
  <1>3. Uncontested(s) => Fulfilled(cmd, running) /\ (cmd.write => Fulfilled(cmd, startup))
    BY <1>1, CloseDone DEF Working
  <1>4. ASSUME NEW t \in Templates, NEW b \in Binding, Serves(s, line[s], t, b)
        PROVE  b \in running.tmpl[t].certs /\ b \in startup.tmpl[t].certs
    <2>1. cmd = [do |-> "bind", tmpl |-> t, binding |-> b, write |-> TRUE]
      BY <1>4 DEF Serves
    <2>2. Uncontested(s)
      <3> SUFFICES ASSUME NEW q \in Shells, NEW i \in DOMAIN Scripts[q], q = s => i < line[s],
                          Disturbs(Scripts[q][i], cmd)
                   PROVE  FALSE
        BY <1>1 DEF Uncontested
      <3> DEFINE other == Scripts[q][i]
      <3>1. /\ other.do = "bind" => other.tmpl # t
            /\ other.do = "unbind" => other.tmpl # t \/ other.cert # b.cert
        BY <1>4, LineTyped DEF Serves, Alone
      <3>2. other \in Command /\ Disturbs(other, cmd)
        BY ScriptTyped
      <3> HIDE DEF other, cmd
      <3>3. PICK m, r : From(other, m) /\ From(cmd, r) /\ Undoes(m, r)
        BY <3>2 DEF Disturbs, From
      <3>4. cmd.do = "bind" /\ cmd.tmpl = t /\ cmd.binding = b
        BY <2>1
      <3> QED BY <1>1, <3>1, <3>2, <3>3, <3>4, FromTyped, BoundOnly DEF Undoes
    <2> HIDE DEF cmd
    <2>3. cmd.do = "bind" /\ cmd.tmpl = t /\ cmd.binding = b /\ cmd.write
      BY <2>1
    <2>4. Fulfilled(cmd, running) /\ Fulfilled(cmd, startup)
      BY <1>3, <2>2, <2>3
    <2> QED BY <2>3, <2>4 DEF Fulfilled
  <1>5. ASSUME NEW t \in Templates, NEW cert \in Names, Retires(s, line[s], t, cert)
        PROVE  ~ Bound(running.tmpl[t], cert) /\ ~ Bound(startup.tmpl[t], cert)
    <2>1. cmd = [do |-> "unbind", tmpl |-> t, cert |-> cert, write |-> TRUE]
      BY <1>5 DEF Retires
    <2>2. Uncontested(s)
      <3> SUFFICES ASSUME NEW q \in Shells, NEW i \in DOMAIN Scripts[q], q = s => i < line[s],
                          Disturbs(Scripts[q][i], cmd)
                   PROVE  FALSE
        BY <1>1 DEF Uncontested
      <3> DEFINE other == Scripts[q][i]
      <3>1. other.do = "bind" => other.tmpl # t \/ other.binding.cert # cert
        BY <1>5, LineTyped DEF Retires, Alone
      <3>2. other \in Command /\ Disturbs(other, cmd)
        BY ScriptTyped
      <3> HIDE DEF other, cmd
      <3>3. PICK m, r : From(other, m) /\ From(cmd, r) /\ Undoes(m, r)
        BY <3>2 DEF Disturbs, From
      <3>4. cmd.do = "unbind" /\ cmd.tmpl = t /\ cmd.cert = cert
        BY <2>1
      <3> QED BY <1>1, <3>1, <3>2, <3>3, <3>4, FromTyped, BoundOnly DEF Undoes
    <2> HIDE DEF cmd
    <2>3. cmd.do = "unbind" /\ cmd.tmpl = t /\ cmd.cert = cert /\ cmd.write
      BY <2>1
    <2>4. Fulfilled(cmd, running) /\ Fulfilled(cmd, startup)
      BY <1>3, <2>2, <2>3
    <2> QED BY <2>3, <2>4 DEF Fulfilled
  <1> QED BY <1>4, <1>5 DEF Stands

LEMMA NextStanding ==
    ASSUME TypeInv, Doubts, ExitInv, Standing, [Next]_vars
    PROVE  Standing'
  <1> SUFFICES ASSUME NEW s \in Shells, NEW j \in DOMAIN Scripts[s], j < line'[s]
               PROVE  Stands(running', s, j) /\ Stands(startup', s, j)
    BY DEF Standing, Stands
  <1>1. j < line[s] => Stands(running, s, j) /\ Stands(startup, s, j)
    BY DEF Standing
  <1>2. CASE line' = line /\ running' = startup /\ startup' = startup
    BY <1>1, <1>2
  <1>3. CASE line' = line /\ Effected
    <2>1. Stands(running, s, j) /\ Stands(startup, s, j)
      BY <1>1, <1>3
    <2>2. PICK q \in Shells, m \in Message : Sent(q, m) /\ Process(m)
      BY <1>3 DEF Effected
    <2>3. running' \in Results(running, m) /\ startup' \in {running, startup} /\ running \in Config
      BY <2>2 DEF Process, TypeInv, TypeOK
    <2>4. Stands(running', s, j)
      BY <2>1, <2>2, <2>3, StandsAfter
    <2> QED BY <2>1, <2>3, <2>4
  <1>4. CASE UNCHANGED <<running, startup>> /\ \A q \in Shells : line'[q] = line[q] \/ Ended(q)
    <2>1. CASE j < line[s]
      BY <1>1, <1>4, <2>1
    <2>2. CASE ~ (j < line[s])
      <3>1. Ended(s) /\ j = line[s]
        BY <1>4, <2>2, LineTyped DEF Ended
      <3>2. Stands(running, s, j) /\ Stands(startup, s, j)
        BY <3>1, EndStands DEF Ended
      <3> QED BY <1>4, <3>2
    <2> QED BY <2>1, <2>2
  <1> QED BY <1>2, <1>3, <1>4, StepMoves DEF Moves, Change

LEMMA NextKept ==
    ASSUME Orderly, TypeInv, Doubts, Standing, Kept(running), Kept(startup), [Next]_vars
    PROVE  Kept(running') /\ Kept(startup')
  <1>1. CASE Effected
    <2>1. PICK q \in Shells, m \in Message : Sent(q, m) /\ Process(m)
      BY <1>1 DEF Effected
    <2>2. running' \in Results(running, m) /\ startup' \in {running, startup}
      BY <2>1 DEF Process
    <2> QED BY <2>1, <2>2, KeptAfter
  <1>2. CASE running' \in {running, startup} /\ startup' = startup
    BY <1>2
  <1> QED BY <1>1, <1>2, StepMoves DEF Moves, Change

LEMMA NextHand ==
    ASSUME Orderly, TypeInv, Doubts, ExitInv, HandInv, [Next]_vars
    PROVE  HandInv'
  <1>1. Standing'
    BY NextStanding DEF HandInv
  <1>2. Kept(running') /\ Kept(startup')
    BY NextKept DEF HandInv
  <1> QED BY <1>1, <1>2 DEF HandInv, Kept, Whole, Bounded

LEMMA InitHand == ASSUME Orderly, Init PROVE HandInv
  <1>1. running \in InitialConfigs /\ startup = running
    BY DEF Init
  <1>2. Kept(running)
    BY <1>1 DEF Orderly, Kept, Bounded, Bindable, Extras
  <1>3. Standing
    <2>1. ASSUME NEW s \in Shells, NEW j \in DOMAIN Scripts[s] PROVE ~ (j < line[s])
      <3>1. line[s] = 1 /\ Scripts[s] \in Seq(Command)
        BY ScriptAssumption DEF Init
      <3> QED BY <3>1
    <2> QED BY <2>1 DEF Standing
  <1> QED BY <1>1, <1>2, <1>3 DEF HandInv

LEMMA HandInvHolds == Orderly /\ Spec => [](TypeInv /\ Doubts /\ ExitInv /\ HandInv)
  <1> SUFFICES ASSUME Orderly PROVE Spec => [](TypeInv /\ Doubts /\ ExitInv /\ HandInv)
    OBVIOUS
  <1>1. Init => TypeInv /\ Doubts /\ ExitInv /\ HandInv
    BY InitTyped, InitDoubts, InitExit, InitHand
  <1>2. TypeInv /\ Doubts /\ ExitInv /\ HandInv /\ [Next]_vars =>
            (TypeInv /\ Doubts /\ ExitInv /\ HandInv)'
    BY NextTyped, NextDoubts, NextExit, NextHand
  <1> QED BY <1>1, <1>2, PTL DEF Spec

(* Rotations by hand in good order never leave a template that refers to a *)
(* file that is not there, now or after a reboot, although a delete does   *)
(* not look at references.                                                 *)
THEOREM NothingDangles == Orderly /\ Spec => [](Whole(running) /\ Whole(startup))
  <1>1. HandInv => Whole(running) /\ Whole(startup)
    BY DEF HandInv, Kept
  <1> QED BY <1>1, HandInvHolds, PTL

LEMMA StepMissing ==
    ASSUME TypeInv, ExitInv, HandInv, [Next]_vars, NEW s \in Shells, ~ seen[s].missing, seen'[s].missing
    PROVE  seen[s].binding \notin running.tmpl[Cmd(s).tmpl].certs
  <1>1. ASSUME NEW q \in Shells, Begin(q) PROVE FALSE
    BY <1>1 DEF Begin, NothingSeen, TypeInv, TypeOK
  <1>2. ASSUME NEW q \in Shells, ReadTemplate(q) PROVE FALSE
    BY <1>2 DEF ReadTemplate, Blind, TypeInv, TypeOK
  <1>3. ASSUME NEW q \in Shells,
               StartSession(q) \/ VerifyCompatibility(q) \/ Request(q) \/ Close(q) \/ Kill(q) \/ Land(q)
        PROVE  FALSE
    BY <1>3 DEF StartSession, VerifyCompatibility, Request, Close, Kill, Land
  <1>4. CASE LandStray \/ Reboot \/ UNCHANGED vars
    BY <1>4 DEF LandStray, Reboot, vars
  <1>5. ASSUME NEW q \in Shells, FindCertificate(q) \/ FindKey(q)
        PROVE  seen[s].binding \notin running.tmpl[Cmd(s).tmpl].certs
    <2>1. PICK file \in {<<"cert", seen[q].binding.cert>>, <<"key", seen[q].binding.key>>} :
             /\ running.files[file] = Absent
             /\ pc[q] \in {"certificate", "key"}
             /\ seen' = [seen EXCEPT ![q].missing = TRUE]
      BY <1>5 DEF FindCertificate, FindKey, Find, Blind
    <2>2. q = s
      BY <2>1 DEF TypeInv, TypeOK
    <2>3. SUFFICES ASSUME seen[s].binding \in running.tmpl[Cmd(s).tmpl].certs PROVE FALSE
      OBVIOUS
    <2>4. Cmd(s) \in Command /\ Cmd(s).do = "status"
      BY <2>1, <2>2, CommandAtWork DEF ExitInv, ExitInvOf
    <2>5. Cmd(s).tmpl \in Templates
      BY <2>4 DEF Command
    <2>6. FilesOf(seen[s].binding) \subseteq Present(running)
      BY <2>3, <2>5 DEF HandInv, Kept, Whole, TemplateFiles
    <2>7. file \in Present(running)
      BY <2>1, <2>2, <2>6 DEF FilesOf, PairOf
    <2> QED BY <2>1, <2>7 DEF Present
  <1> QED BY <1>1, <1>2, <1>3, <1>4, <1>5 DEF Next, Run, Finished

(* status tells of a missing file only where the slot has changed since it *)
(* was read, whatever other shells rotate, fail at or reboot meanwhile, as *)
(* long as they rotate in good order.                                      *)
THEOREM MissingExplained == Orderly /\ Spec => MissingMeansChanged
  <1>1. TypeInv /\ ExitInv /\ HandInv /\ [Next]_vars =>
            [\A s \in Shells :
                ~ seen[s].missing /\ seen'[s].missing =>
                    seen[s].binding \notin running.tmpl[Cmd(s).tmpl].certs]_vars
    BY StepMissing
  <1> QED BY <1>1, HandInvHolds, PTL DEF Spec, MissingMeansChanged

----------------------------------------------------------------------------
(* The rotation by hand implements the abstract store.                     *)

Here == InStore(running)
There == InStore(startup)

LEMMA HereParts ==
    /\ Here.tmpl = running.tmpl /\ Here.server = {} /\ Here.files = Present(running) \cap File
    /\ Here = [tmpl |-> running.tmpl, server |-> {}, files |-> Present(running) \cap File]
  BY DEF Here, InStore

LEMMA HereExcept ==
    ASSUME NEW X
    PROVE  /\ [Here EXCEPT !.files = X] = [tmpl |-> Here.tmpl, server |-> {}, files |-> X]
           /\ [Here EXCEPT !.tmpl = X] = [tmpl |-> X, server |-> {}, files |-> Here.files]
  <1> DEFINE r == Here
             T == Here.tmpl
             S == {}
             F == Here.files
  <1>1. r = [tmpl |-> T, server |-> S, files |-> F]
    BY HereParts
  <1> HIDE DEF r, T, S, F
  <1>2. /\ [r EXCEPT !.files = X] = [tmpl |-> T, server |-> S, files |-> X]
        /\ [r EXCEPT !.tmpl = X] = [tmpl |-> X, server |-> S, files |-> F]
    BY <1>1
  <1> QED BY <1>2 DEF r, T, S, F

LEMMA SameFiles ==
    /\ \A b : Store!FilesOf(b) = FilesOf(b)
    /\ \A t : Store!TemplateFiles(t) = TemplateFiles(t)
    /\ \A t, n : Store!WithoutCertificate(t, n) = WithoutCertificate(t, n)
    /\ Store!File = File
  BY DEF Store!FilesOf, FilesOf, Store!PairOf, PairOf, Store!ChainOf, ChainOf,
         Store!TemplateFiles, TemplateFiles, Store!WithoutCertificate, WithoutCertificate,
         Store!File, File

LEMMA UploadStores ==
    ASSUME running \in Config, NEW m \in Message, m.op = "upload", Process(m)
    PROVE  [Store!Next]_(Store!svars)
  <1>1. m.file \in Stored /\ m.content # Absent /\ running' \in Results(running, m) /\ startup' = startup
    BY Operations, AbsentAssumption DEF Process
  <1>2. running'.tmpl = running.tmpl
    BY <1>1, TemplatesAfter
  <1>3. Present(running') = Present(running) \cup {m.file}
    BY <1>1, FilesAfter DEF Present
  <1> DEFINE F == ({m.file} \cap File) \ Present(running)
  <1>4. Here' = [Here EXCEPT !.files = Here.files \cup F]
    BY <1>2, <1>3 DEF Here, InStore
  <1>5. There' = There
    BY <1>1 DEF There
  <1>6. CASE F = {}
    <2>1. Here' = Here
      BY <1>4, <1>6 DEF Here, InStore
    <2> QED BY <1>5, <2>1 DEF Here, There, Store!svars
  <1>7. CASE F # {}
    <2>1. F \in SUBSET (File \ Here.files)
      BY HereParts
    <2> HIDE DEF F
    <2>2. Store!Stage
      BY <1>4, <1>5, <1>7, <2>1, SameFiles DEF Store!Stage, Here, There
    <2> QED BY <2>2 DEF Store!Next
  <1> QED BY <1>6, <1>7

LEMMA DeleteStores ==
    ASSUME running \in Config, NEW m \in Message, m.op = "delete", Process(m),
           \A t \in Templates : m.files \cap TemplateFiles(running.tmpl[t]) = {}
    PROVE  [Store!Next]_(Store!svars)
  <1>1. m.files \subseteq Stored /\ running' \in Results(running, m) /\ startup' = startup
    BY Operations DEF Process
  <1>2. running'.tmpl = running.tmpl
    BY <1>1, TemplatesAfter
  <1>3. Present(running') = Present(running) \ m.files
    BY <1>1, FilesAfter DEF Present
  <1> DEFINE F == m.files \cap Here.files
  <1>4. Here' = [Here EXCEPT !.files = Here.files \ F]
    <2>1. Present(running') \cap File = Here.files \ F
      BY <1>3, HereParts
    <2>2. Here' = [tmpl |-> Here.tmpl, server |-> {}, files |-> Here.files \ F]
      BY <1>2, <2>1, HereParts DEF Here, InStore
    <2> QED BY <2>2, HereExcept
  <1>5. There' = There
    BY <1>1 DEF There
  <1>6. CASE F = {}
    <2>1. Here' = Here
      BY <1>4, <1>6 DEF Here, InStore
    <2> QED BY <1>5, <2>1 DEF Here, There, Store!svars
  <1>7. CASE F # {}
    <2>1. F \cap Store!Refs(Here) = {}
      BY HereParts, SameFiles DEF Store!Refs
    <2>2. F \in SUBSET (Here.files \ Store!Refs(Here))
      BY <2>1
    <2> HIDE DEF F
    <2>3. Store!Discard
      BY <1>4, <1>5, <1>7, <2>2 DEF Store!Discard, Here, There
    <2> QED BY <2>3 DEF Store!Next
  <1> QED BY <1>6, <1>7

LEMMA BindStores ==
    ASSUME running \in Config, NEW m \in Message, m.op = "bind", Process(m), m.binding \in AllBindings
    PROVE  [Store!Next]_(Store!svars)
  <1> DEFINE t == m.tmpl
             b == m.binding
  <1>1. t \in Templates /\ b \in Binding /\ running' \in Results(running, m) /\ startup' = startup
    BY Operations DEF Process
  <1>2. /\ FilesOf(b) \subseteq Present(running)
        /\ \/ running' = [running EXCEPT !.tmpl[t].certs = {p \in running.tmpl[t].certs : p.cert # b.cert} \cup {b}]
           \/ /\ Cardinality(running.tmpl[t].certs) = 1
              /\ running' = [running EXCEPT !.tmpl[t].certs = {} \cup {b}]
    BY <1>1 DEF Results
  <1>3. FilesOf(b) \subseteq Here.files
    BY <1>1, <1>2, HereParts DEF FilesOf, PairOf, ChainOf, File, Binding
  <1>4. There' = There
    BY <1>1 DEF There
  <1>5. ASSUME NEW C, running' = [running EXCEPT !.tmpl[t].certs = C]
        PROVE  Here' = [Here EXCEPT !.tmpl[t].certs = C]
    <2>1. running'.tmpl = [running.tmpl EXCEPT ![t].certs = C] /\ running'.files = running.files
      BY <1>5 DEF Config
    <2>2. Present(running') = Present(running)
      BY <2>1 DEF Present
    <2>3. Here' = [tmpl |-> running'.tmpl, server |-> {}, files |-> Present(running) \cap File]
      BY <2>2 DEF Here, InStore
    <2>4. Here' = [tmpl |-> [Here.tmpl EXCEPT ![t].certs = C], server |-> {}, files |-> Here.files]
      BY <2>1, <2>3, HereParts
    <2>5. [Here EXCEPT !.tmpl[t].certs = C] = [Here EXCEPT !.tmpl = [Here.tmpl EXCEPT ![t].certs = C]]
      OBVIOUS
    <2> QED BY <2>4, <2>5, HereExcept
  <1> HIDE DEF t, b
  <1>6. CASE running' = [running EXCEPT !.tmpl[t].certs = {p \in running.tmpl[t].certs : p.cert # b.cert} \cup {b}]
    <2>1. Here' = [Here EXCEPT !.tmpl[t].certs = {p \in Here.tmpl[t].certs : p.cert # b.cert} \cup {b}]
      BY <1>5, <1>6, HereParts
    <2>2. Store!Serve(t)
      BY <1>3, <1>4, <2>1, SameFiles DEF Store!Serve, Here, There, b
    <2> QED BY <1>1, <2>2 DEF Store!Next
  <1>7. CASE Cardinality(running.tmpl[t].certs) = 1 /\ running' = [running EXCEPT !.tmpl[t].certs = {} \cup {b}]
    <2>1. {} \cup {b} = {b}
      OBVIOUS
    <2>2. Here' = [Here EXCEPT !.tmpl[t].certs = {b}]
      BY <1>5, <1>7, <2>1
    <2>3. Store!Cardinality(Here.tmpl[t].certs) = 1
      BY <1>7, HereParts DEF Store!Cardinality, Cardinality
    <2>4. Store!Swap(t)
      BY <1>3, <1>4, <2>2, <2>3, SameFiles DEF Store!Swap, Here, There, b
    <2> QED BY <1>1, <2>4 DEF Store!Next
  <1> QED BY <1>2, <1>6, <1>7

LEMMA UnbindStores ==
    ASSUME running \in Config, NEW m \in Message, m.op = "unbind", Process(m),
           \E p \in running.tmpl[m.tmpl].certs : p.cert # m.cert
    PROVE  [Store!Next]_(Store!svars)
  <1> DEFINE t == m.tmpl
  <1>1. t \in Templates /\ running' \in Results(running, m) /\ startup' = startup
    BY Operations DEF Process
  <1>2. /\ Bound(running.tmpl[t], m.cert)
        /\ running' = [running EXCEPT !.tmpl[t] = WithoutCertificate(running.tmpl[t], m.cert)]
    BY <1>1 DEF Results
  <1>3. running'.tmpl = [running.tmpl EXCEPT ![t] = WithoutCertificate(running.tmpl[t], m.cert)]
        /\ running'.files = running.files
    BY <1>2 DEF Config
  <1>4. Here' = [Here EXCEPT !.tmpl[t] = WithoutCertificate(Here.tmpl[t], m.cert)]
    <2>1. Present(running') = Present(running)
      BY <1>3 DEF Present
    <2>2. Here' = [tmpl |-> running'.tmpl, server |-> {}, files |-> Present(running) \cap File]
      BY <2>1 DEF Here, InStore
    <2>3. Here' = [tmpl |-> [Here.tmpl EXCEPT ![t] = WithoutCertificate(Here.tmpl[t], m.cert)],
                   server |-> {}, files |-> Here.files]
      BY <1>3, <2>2, HereParts
    <2> QED BY <2>3, HereParts
  <1>5. There' = There
    BY <1>1 DEF There
  <1>6. PICK b \in Here.tmpl[t].certs : b.cert = m.cert
    BY <1>2, HereParts DEF Bound
  <1>7. \E p \in Here.tmpl[t].certs : p.cert # b.cert
    BY <1>6, HereParts
  <1> HIDE DEF t
  <1>8. Here' = [Here EXCEPT !.tmpl[t] = Store!WithoutCertificate(Here.tmpl[t], b.cert)]
    BY <1>4, <1>6, SameFiles
  <1>9. Store!Withdraw(t)
    BY <1>5, <1>6, <1>7, <1>8 DEF Store!Withdraw, Here, There
  <1> QED BY <1>1, <1>9 DEF Store!Next

LEMMA EffectStores ==
    ASSUME Orderly, TypeInv, HandInv, Effected
    PROVE  [Store!Next]_(Store!svars)
  <1>1. PICK q \in Shells, m \in Message : Sent(q, m) /\ Process(m)
    BY DEF Effected
  <1>0. PICK k \in DOMAIN Scripts[q] : k <= line[q] /\ From(Scripts[q][k], m)
    BY <1>1 DEF Sent
  <1> DEFINE cmd == Scripts[q][k]
  <1>2. /\ cmd \in Command /\ cmd \in Issued /\ From(cmd, m)
        /\ running \in Config /\ running' \in Results(running, m)
    BY <1>0, <1>1, ScriptTyped DEF TypeInv, TypeOK, Process
  <1> HIDE DEF cmd
  <1>3. CASE m.op = "upload"
    BY <1>1, <1>2, <1>3, UploadStores
  <1>4. CASE m.op = "delete"
    BY <1>1, <1>2, <1>4, KeptAfter, DeleteStores DEF HandInv
  <1>5. CASE m.op = "bind"
    <2>1. cmd \in {c \in Issued : c.do = "bind"} /\ m.binding = cmd.binding
      BY <1>1, <1>2, <1>5, FromTyped
    <2>2. m.binding \in {c2.binding : c2 \in {c \in Issued : c.do = "bind"}}
      BY <2>1
    <2>3. m.binding \in AllBindings
      BY <2>2 DEF AllBindings
    <2> QED BY <1>1, <1>2, <1>5, <2>3, BindStores
  <1>6. CASE m.op = "unbind"
    <2>1. cmd.do = "unbind" /\ m.tmpl = cmd.tmpl /\ m.cert = cmd.cert /\ m.tmpl \in Templates
      BY <1>2, <1>6, FromTyped, Operations
    <2>2. PICK j \in DOMAIN Scripts[q], b \in Binding :
             j < k /\ b.cert # m.cert /\ Serves(q, j, m.tmpl, b)
      BY <2>1 DEF Orderly, cmd
    <2>3. j < line[q]
      BY <1>0, <2>2, LineTyped
    <2>4. b \in running.tmpl[m.tmpl].certs
      BY <2>1, <2>2, <2>3 DEF HandInv, Standing, Stands
    <2> QED BY <1>1, <1>2, <1>6, <2>2, <2>4, UnbindStores
  <1>7. CASE m.op = "write"
    <2>1. running' = running /\ startup' = running
      BY <1>1, <1>7 DEF Process, Results
    <2>2. Store!Save
      BY <2>1 DEF Store!Save
    <2> QED BY <2>2 DEF Store!Next
  <1>8. CASE m.op \in {"read", "usage"}
    <2>1. running' = running /\ startup' = startup
      BY <1>1, <1>8 DEF Process, Results
    <2> QED BY <2>1 DEF Store!svars
  <1> QED BY <1>3, <1>4, <1>5, <1>6, <1>7, <1>8, Operations

LEMMA NextStores ==
    ASSUME Orderly, TypeInv, Doubts, HandInv, [Next]_vars
    PROVE  [Store!Next]_(Store!svars)
  <1>1. CASE Effected
    BY <1>1, EffectStores
  <1>2. CASE running' = startup /\ startup' = startup
    <2>1. Store!Restart
      BY <1>2 DEF Store!Restart
    <2> QED BY <2>1 DEF Store!Next
  <1>3. CASE UNCHANGED <<running, startup>>
    BY <1>3 DEF Store!svars
  <1> QED BY <1>1, <1>2, <1>3, StepMoves DEF Moves, Change

LEMMA InitStores == ASSUME Orderly, Init PROVE Store!Init
  <1>1. Whole(running) /\ running \in Config /\ startup = running
    BY ConfigAssumption DEF Init, Orderly
  <1>2. ASSUME NEW t \in Templates PROVE TemplateFiles(running.tmpl[t]) \subseteq Present(running) \cap File
    <2>1. running.tmpl[t] \in Template
      BY <1>1 DEF Config
    <2>2. TemplateFiles(running.tmpl[t]) \subseteq File
      BY <2>1 DEF TemplateFiles, Template, FilesOf, PairOf, ChainOf, File, Binding
    <2> QED BY <1>1, <2>2 DEF Whole
  <1>3. Store!Closed(Here)
    BY <1>2, HereParts, SameFiles DEF Store!Closed, Store!Refs
  <1> QED BY <1>1, <1>3 DEF Store!Init, Here

(* Commands run by hand keep the promise of the rotation in one call, for  *)
(* any shells, scripts in good order, failures, kills, late requests and   *)
(* reboots: a template in service never stops serving, and only files that *)
(* nothing refers to go.                                                   *)
THEOREM CommandsImplementStore == Orderly /\ Spec => ImplementsStore
  <1> SUFFICES ASSUME Orderly PROVE Spec => ImplementsStore
    OBVIOUS
  <1>1. Init => Store!Init
    BY InitStores
  <1>2. TypeInv /\ Doubts /\ HandInv /\ [Next]_vars => [Store!Next]_(Store!svars)
    BY NextStores
  <1>3. Spec => Store!Spec
    BY <1>1, <1>2, HandInvHolds, PTL DEF Spec, Store!Spec
  <1> QED BY <1>3 DEF ImplementsStore
====
