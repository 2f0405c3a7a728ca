---------------------------- MODULE SettingsProofs ----------------------------
(* Proofs about Settings: types, what .env says, and that a restart        *)
(* changes nothing between requests.                                       *)
EXTENDS Settings, TLAPS

(* A value is a boolean, a number or a string.                             *)
LEMMA ValueForms ==
  ASSUME NEW v \in Values
  PROVE  \/ \E b \in BOOLEAN : v = <<"bool", b>>
         \/ \E n \in Nat : v = <<"number", n>>
         \/ \E f \in Forms : \E x : v = <<"string", <<f, x>>>>
<1>1. CASE v = <<"bool", v[2]>> /\ v[2] \in BOOLEAN
  BY <1>1
<1>2. CASE v = <<"number", v[2]>> /\ v[2] \in Nat
  BY <1>2
<1>3. CASE v = <<"string", v[2]>> /\ v[2] = <<v[2][1], v[2][2]>> /\ v[2][1] \in Forms
  <2>1. v = <<"string", <<v[2][1], v[2][2]>>>>
    BY <1>3
  <2> QED BY <1>3, <2>1
<1> QED BY <1>1, <1>2, <1>3, SettingsAssumption DEF SettingsAssumption

(* Texts that are written or printed are texts.                            *)
LEMMA TextsOf ==
  ASSUME NEW v \in Values
  PROVE  ValueToEnvString(v) \in Texts /\ Sprint(v) \in Texts
BY DEF Texts, Sent

(* What is read of a line that was written is a text, unless the line is   *)
(* one that cannot be parsed.                                              *)
LEMMA RereadType ==
  ASSUME NEW t \in Texts \cup {NoText, Broken}
  PROVE  Reread(t) \in Texts \cup {NoText, Broken}
<1>1. CASE t \in {NoText, Broken}
  <2>1. Reread(NoText) = NoText /\ Reread(Broken) = Broken
    BY DEF Reread, NoText, Broken
  <2> QED BY <1>1, <2>1
<1>2. CASE t \in Sent
  BY <1>2 DEF Texts
<1>3. CASE t \in {Reread(u) : u \in Sent} \ {Broken}
  <2>1. PICK u \in Sent : t = Reread(u)
    BY <1>3
  <2>2. CASE u[1] = "padded"
    <3>1. t[1] = "decimal"
      BY <2>1, <2>2 DEF Reread
    <3>2. Reread(t) = t
      BY <3>1 DEF Reread
    <3> QED BY <3>2
  <2>3. CASE u[1] = "quote"
    <3>1. t[1] = "backslash"
      BY <2>1, <2>3 DEF Reread
    <3>2. Reread(t) = Broken
      BY <3>1 DEF Reread
    <3> QED BY <3>2
  <2>4. CASE u[1] = "backslash"
    BY <1>3, <2>1, <2>4 DEF Reread
  <2>5. CASE u[1] \notin {"padded", "quote", "backslash"}
    <3>1. t = u
      BY <2>1, <2>5 DEF Reread
    <3> QED BY <2>5, <3>1 DEF Reread
  <2> QED BY <2>2, <2>3, <2>4, <2>5
<1> QED BY <1>1, <1>2, <1>3 DEF Texts

(* So what is written of a content is read as a content.                   *)
LEMMA MarshalledType ==
  ASSUME NEW c \in Contents
  PROVE  Marshalled(c) \in Contents
<1> SUFFICES ASSUME NEW k \in Names PROVE Reread(c[k]) \in Texts \cup {NoText, Broken}
  BY DEF Marshalled, Contents
<1>1. c[k] \in Texts \cup {NoText, Broken}
  BY DEF Contents
<1> QED BY <1>1, RereadType

(* What is written for one name. *)
LEMMA MarshalledAt ==
  ASSUME NEW c, NEW k \in Names
  PROVE  Marshalled(c)[k] = Reread(c[k])
BY DEF Marshalled

(* The empty file is a file. *)
LEMMA EmptyType == Empty \in Contents
BY DEF Empty, Contents

(* Merging an edit into a content gives a content.                         *)
LEMMA MergedType ==
  ASSUME NEW c \in Contents, NEW e \in Edits
  PROVE  Merged(c, e) \in Contents
<1> SUFFICES ASSUME NEW k \in Names
             PROVE  (IF e[k] = Keep THEN c[k]
                     ELSE IF e[k] = Drop THEN NoText ELSE ValueToEnvString(e[k]))
                    \in Texts \cup {NoText, Broken}
  BY DEF Merged, Contents
<1>1. c[k] \in Texts \cup {NoText, Broken}
  BY DEF Contents
<1>2. e[k] \in Values \cup {Keep, Drop}
  BY DEF Edits
<1>3. CASE e[k] \in {Keep, Drop}
  BY <1>1, <1>3
<1>4. CASE e[k] \in Values
  BY <1>1, <1>4, TextsOf
<1> QED BY <1>2, <1>3, <1>4

(* What a merge says of one name. *)
LEMMA MergedAt ==
  ASSUME NEW c, NEW e, NEW k \in Names
  PROVE  Merged(c, e)[k] = IF e[k] = Keep THEN c[k]
                           ELSE IF e[k] = Drop THEN NoText ELSE ValueToEnvString(e[k])
BY DEF Merged

(* What a write leaves in the file is a content, and the whole of it in    *)
(* one that was empty.                                                     *)
LEMMA WrittenType ==
  ASSUME NEW old, NEW new \in Contents
  PROVE  Written(old, new) \subseteq Contents /\ Written(Empty, new) = {new}
BY DEF Written

(* What is loaded of a file, if it can be parsed, is an environment.       *)
LEMMA LoadEnvType ==
  ASSUME dotenv \in Contents
  PROVE  LoadEnv \in Environments
<1>1. Inherited \in Environments
  BY SettingsAssumption DEF SettingsAssumption
<1>2. CASE Readable(dotenv)
  <2>1. \A k \in Names : dotenv[k] \in Texts \cup {NoText}
    BY <1>2 DEF Readable, Contents
  <2> QED BY <1>1, <1>2, <2>1 DEF LoadEnv, Environments
<1> QED BY <1>1, <1>2 DEF LoadEnv

(* What Load makes of a text is a value of a field,                        *)
LEMMA LoadedType ==
  ASSUME NEW k \in Registry, NEW t \in Texts \cup {NoText}
  PROVE  Loaded(k, t) \in Fields
<1>1. Default[k] \in Fields
  BY SettingsAssumption DEF Fields, SettingsAssumption
<1>2. CASE t \in {NoText, Blank, Invalid} \/ Parse(KindOf[k], t) = Invalid
  BY <1>1, <1>2 DEF Loaded
<1>3. CASE ~(t \in {NoText, Blank, Invalid} \/ Parse(KindOf[k], t) = Invalid)
  <2>1. t \in Texts /\ KindOf[k] \in Kinds
    BY <1>3, SettingsAssumption DEF SettingsAssumption
  <2>2. Parse(KindOf[k], t) \in Fields
    BY <1>3, <2>1 DEF Fields
  <2> QED BY <1>3, <2>2 DEF Loaded
<1> QED BY <1>2, <1>3

(* and so is a value that could be converted.                              *)
LEMMA ConvertedType ==
  ASSUME NEW k \in Registry, NEW v \in Values, Converted(KindOf[k], v) # Invalid
  PROVE  Converted(KindOf[k], v) \in Fields
<1>1. KindOf[k] \in Kinds
  BY SettingsAssumption DEF SettingsAssumption
<1> QED BY <1>1 DEF Fields

(* A name is a setting or the variable of a key. *)
LEMMA NamesSplit == /\ Registry \subseteq Names /\ KeyVars \subseteq Names
                    /\ Names = Registry \cup KeyVars /\ Registry \cap KeyVars = {}
BY SettingsAssumption DEF Names, SettingsAssumption

-------------------------------------------------------------------------------
(* Types *)

(* An activity, put together ... *)
LEMMA MakeActivity ==
  ASSUME NEW pc \in Phases, NEW e \in Edits, NEW new \in Contents,
         NEW at \in {"tmp", "env", "gone"}
  PROVE  [pc |-> pc, edit |-> e, new |-> new, at |-> at] \in Activities
BY DEF Activities

(* ... and taken apart. *)
LEMMA ActivityFields ==
  ASSUME NEW a \in Activities
  PROVE  /\ a.pc \in Phases /\ a.edit \in Edits /\ a.new \in Contents
         /\ a.at \in {"tmp", "env", "gone"}
         /\ a = [pc |-> a.pc, edit |-> a.edit, new |-> a.new, at |-> a.at]
BY DEF Activities

(* To keep a name is not to drop it. *)
LEMMA KeepNotDrop == Keep # Drop
BY DEF Keep, Drop

(* An edit that keeps every name is an edit. *)
LEMMA UnchangingType == Unchanging \in Edits
BY NamesSplit, KeepNotDrop DEF Unchanging, Edits

(* An activity, of its phase and its edit alone. *)
LEMMA DoingType ==
  ASSUME NEW pc \in Phases, NEW e \in Edits
  PROVE  Doing(pc, e) \in Activities
BY MakeActivity, EmptyType DEF Doing

(* A request at rest, or refused. *)
LEMMA IdleType == Idle \in Activities /\ Refused \in Activities
BY DoingType, UnchangingType DEF Idle, Refused, Phases

(* One request changes, the others stay.                                   *)
LEMMA OneChanges ==
  ASSUME req \in [Requests -> Activities], NEW r \in Requests, NEW a \in Activities,
         req' = [req EXCEPT ![r] = a]
  PROVE  /\ req' \in [Requests -> Activities]
         /\ req'[r] = a
         /\ \A q \in Requests \ {r} : req'[q] = req[q]
OBVIOUS

(* A request goes on, with its file where it is told.                      *)
LEMMA Moves ==
  ASSUME req \in [Requests -> Activities], NEW r \in Requests,
         NEW pc \in Phases, NEW at \in {"tmp", "env", "gone"},
         req' = [req EXCEPT ![r].pc = pc, ![r].at = at]
  PROVE  /\ req' \in [Requests -> Activities]
         /\ req'[r] = [pc |-> pc, edit |-> req[r].edit, new |-> req[r].new, at |-> at]
         /\ \A q \in Requests \ {r} : req'[q] = req[q]
<1>0. req[r] \in Activities
  OBVIOUS
<1>1. /\ req[r] = [pc |-> req[r].pc, edit |-> req[r].edit, new |-> req[r].new, at |-> req[r].at]
      /\ req[r].edit \in Edits /\ req[r].new \in Contents
      /\ req[r].at \in {"tmp", "env", "gone"}
  BY <1>0, ActivityFields
<1>2. /\ req'[r] = [pc |-> pc, edit |-> req[r].edit, new |-> req[r].new, at |-> at]
      /\ \A q \in Requests \ {r} : req'[q] = req[q]
      /\ req' = [q \in Requests |-> req'[q]]
  BY <1>1
<1>3. req'[r] \in Activities
  BY <1>1, <1>2 DEF Activities
<1>4. \A q \in Requests : req'[q] \in Activities
  BY <1>2, <1>3
<1> QED BY <1>2, <1>4

(* A request that only goes on to another phase. *)
LEMMA MovesPc ==
  ASSUME req \in [Requests -> Activities], NEW r \in Requests, NEW pc \in Phases,
         req' = [req EXCEPT ![r].pc = pc]
  PROVE  /\ req' \in [Requests -> Activities]
         /\ req'[r] = [pc |-> pc, edit |-> req[r].edit, new |-> req[r].new, at |-> req[r].at]
         /\ \A q \in Requests \ {r} : req'[q] = req[q]
<1>0. req[r] \in Activities
  OBVIOUS
<1>1. /\ req[r] = [pc |-> req[r].pc, edit |-> req[r].edit, new |-> req[r].new, at |-> req[r].at]
      /\ req[r].edit \in Edits /\ req[r].new \in Contents
      /\ req[r].at \in {"tmp", "env", "gone"}
  BY <1>0, ActivityFields
<1>2. /\ req'[r] = [pc |-> pc, edit |-> req[r].edit, new |-> req[r].new, at |-> req[r].at]
      /\ \A q \in Requests \ {r} : req'[q] = req[q]
      /\ req' = [q \in Requests |-> req'[q]]
  BY <1>1
<1>3. req'[r] \in Activities
  BY <1>1, <1>2 DEF Activities
<1>4. \A q \in Requests : req'[q] \in Activities
  BY <1>2, <1>3
<1> QED BY <1>2, <1>4

(* One request changes, and where the files of the others are.             *)
LEMMA OneMoves ==
  ASSUME req \in [Requests -> Activities], NEW r \in Requests, NEW a \in Activities,
         NEW there \in {"env", "gone"},
         req' = [q \in Requests |-> IF q = r THEN a ELSE Moved(q, there)]
  PROVE  /\ req' \in [Requests -> Activities]
         /\ req'[r] = a
         /\ \A q \in Requests \ {r} : /\ req'[q].pc = req[q].pc
                                      /\ req'[q].edit = req[q].edit
                                      /\ req'[q].new = req[q].new
<1>1. ASSUME NEW q \in Requests \ {r}
      PROVE  /\ req'[q] \in Activities
             /\ req'[q].pc = req[q].pc
             /\ req'[q].edit = req[q].edit
             /\ req'[q].new = req[q].new
  <2> DEFINE at == IF req[q].at = "tmp" THEN there
                   ELSE IF there = "env" THEN "gone" ELSE req[q].at
  <2>1. req[q] \in Activities
    OBVIOUS
  <2>2. /\ req[q] = [pc |-> req[q].pc, edit |-> req[q].edit, new |-> req[q].new,
                     at |-> req[q].at]
        /\ req[q].pc \in Phases /\ req[q].edit \in Edits /\ req[q].new \in Contents
    BY <2>1, ActivityFields
  <2>3. req'[q] = [req[q] EXCEPT !.at = at]
    BY DEF Moved
  <2>4. req'[q] = [pc |-> req[q].pc, edit |-> req[q].edit, new |-> req[q].new, at |-> at]
    BY <2>2, <2>3
  <2>5. at \in {"tmp", "env", "gone"}
    BY <2>1, ActivityFields
  <2>6. req'[q] \in Activities
    BY <2>2, <2>4, <2>5 DEF Activities
  <2> QED BY <2>4, <2>6
<1>2. req'[r] = a
  OBVIOUS
<1>3. \A q \in Requests : req'[q] \in Activities
  BY <1>1, <1>2
<1> QED BY <1>1, <1>2, <1>3

(* The environment and the configuration that Load makes.                  *)
LEMMA ConfigType ==
  ASSUME NEW env \in Environments
  PROVE  [k \in Registry |-> Loaded(k, env[k])] \in [Registry -> Fields]
<1> SUFFICES ASSUME NEW k \in Registry PROVE Loaded(k, env[k]) \in Fields
  OBVIOUS
<1>1. env[k] \in Texts \cup {NoText}
  BY NamesSplit DEF Environments
<1> QED BY <1>1, LoadedType

(* At the start nobody edits. *)
LEMMA TypeInit == Init => TypeOK
<1> SUFFICES ASSUME Init PROVE TypeOK
  OBVIOUS
<1>0. dotenv \in Contents
  BY SettingsAssumption DEF Init, SettingsAssumption
<1>1. osenv \in Environments
  BY <1>0, LoadEnvType DEF Init
<1>2. config \in [Registry -> Fields]
  BY <1>1, ConfigType DEF Init
<1>3. req \in [Requests -> Activities]
  BY IdleType DEF Init
<1> QED BY <1>0, <1>1, <1>2, <1>3 DEF Init, TypeOK, Unsteady

(* The steps of a request keep the types.                                  *)
LEMMA TypeRead ==
  ASSUME TypeOK, NEW r \in Requests, NEW edit \in Requested, Read(r, edit)
  PROVE  TypeOK'
<1>1. edit \in Edits
  BY DEF Requested
<1>2. [pc |-> "open", edit |-> edit, new |-> Merged(dotenv, edit), at |-> "tmp"] \in Activities
  BY <1>1, MergedType, MakeActivity DEF TypeOK, Phases
<1>3. req' \in [Requests -> Activities]
  BY <1>2, OneChanges DEF TypeOK, Read
<1> QED BY <1>3 DEF TypeOK, Read

(* Types, when the file cannot be read or opened. *)
LEMMA TypeRefused ==
  ASSUME TypeOK, NEW r \in Requests, ReadFails(r) \/ OpenFails(r)
  PROVE  TypeOK'
<1>1. req' = [req EXCEPT ![r] = Refused]
  BY DEF ReadFails, OpenFails
<1>2. req' \in [Requests -> Activities]
  BY <1>1, IdleType, OneChanges DEF TypeOK
<1>3. UNCHANGED <<dotenv, tmp, osenv, config, promised, odd, raced, late>>
  BY DEF ReadFails, OpenFails, history
<1> QED BY <1>2, <1>3 DEF TypeOK

(* Types, when the write fails. *)
LEMMA TypeWriteFails ==
  ASSUME TypeOK, NEW r \in Requests, WriteFails(r)
  PROVE  TypeOK'
<1>1. req' \in [Requests -> Activities]
  BY IdleType, OneChanges DEF TypeOK, WriteFails
<1>2. req[r] \in Activities /\ req[r].new \in Contents /\ req[r].at \in {"tmp", "env", "gone"}
  BY ActivityFields DEF TypeOK
<1>3. dotenv' \in Contents /\ tmp' \in Contents \cup {NoFile}
  BY <1>2, MarshalledType DEF TypeOK, WriteFails
<1> QED BY <1>1, <1>3 DEF TypeOK, WriteFails, history

(* Types, when the temporary file is opened. *)
LEMMA TypeOpen ==
  ASSUME TypeOK, NEW r \in Requests, Open(r)
  PROVE  TypeOK'
<1>1. req' \in [Requests -> Activities]
  BY Moves DEF TypeOK, Open, Phases
<1> QED BY <1>1, EmptyType DEF TypeOK, Open, history

(* Types, when it is written. *)
LEMMA TypeWrite ==
  ASSUME TypeOK, NEW r \in Requests, Write(r)
  PROVE  TypeOK'
<1>1. req' \in [Requests -> Activities]
  BY MovesPc DEF TypeOK, Write, Phases
<1>2. req[r] \in Activities /\ req[r].new \in Contents /\ req[r].at \in {"tmp", "env", "gone"}
  BY ActivityFields DEF TypeOK
<1>3. dotenv' \in Contents /\ tmp' \in Contents \cup {NoFile}
  BY <1>2, MarshalledType, WrittenType DEF TypeOK, Write
<1> QED BY <1>1, <1>3 DEF TypeOK, Write, history

(* Types, when it becomes the file. *)
LEMMA TypeRename ==
  ASSUME TypeOK, NEW r \in Requests, Rename(r)
  PROVE  TypeOK'
<1>1. req[r] \in Activities /\ req[r].edit \in Edits
  BY ActivityFields DEF TypeOK
<1>2. Doing("apply", req[r].edit) \in Activities
  BY <1>1, DoingType DEF Phases
<1>3. req' \in [Requests -> Activities]
  BY <1>2, OneMoves DEF TypeOK, Rename
<1>4. promised' \in Contents
  BY <1>1, MergedType, MarshalledType DEF TypeOK, Rename
<1> QED BY <1>3, <1>4 DEF TypeOK, Rename

(* Types, when it does not. *)
LEMMA TypeRenameFails ==
  ASSUME TypeOK, NEW r \in Requests, RenameFails(r)
  PROVE  TypeOK'
<1>1. req' \in [Requests -> Activities]
  BY IdleType, OneMoves DEF TypeOK, RenameFails
<1> QED BY <1>1 DEF TypeOK, RenameFails, history

(* What is left to apply.                                                  *)
LEMMA AppliedType ==
  ASSUME TypeOK, NEW r \in Requests, NEW k \in Names, Applied(r, k)
  PROVE  /\ req' \in [Requests -> Activities]
         /\ \/ req'[r] = Idle /\ \A n \in Names \ {k} : req[r].edit[n] = Keep
            \/ req'[r] = Doing("apply", [req[r].edit EXCEPT ![k] = Keep])
         /\ \A q \in Requests \ {r} : req'[q] = req[q]
<1> DEFINE rest == [req[r].edit EXCEPT ![k] = Keep]
           a == IF Asked(rest) = {} THEN Idle ELSE Doing("apply", rest)
<1>1. req[r] \in Activities /\ req[r].edit \in Edits
  BY ActivityFields DEF TypeOK
<1>2. rest \in Edits
  BY <1>1, NamesSplit, KeepNotDrop DEF Edits
<1>3. a \in Activities
  BY <1>2, IdleType, DoingType DEF Phases
<1>4. req' = [req EXCEPT ![r] = a]
  BY DEF Applied
<1>5. /\ req' \in [Requests -> Activities]
      /\ req'[r] = a
      /\ \A q \in Requests \ {r} : req'[q] = req[q]
  BY <1>3, <1>4, OneChanges DEF TypeOK
<1>6. Asked(rest) = {} => \A n \in Names \ {k} : req[r].edit[n] = Keep
  BY <1>1 DEF Asked, Edits
<1> QED BY <1>5, <1>6

(* Types, when a key is applied. *)
LEMMA TypeApplyKey ==
  ASSUME TypeOK, NEW r \in Requests, NEW k \in Names, ApplyKey(r, k)
  PROVE  TypeOK'
<1>1. req' \in [Requests -> Activities]
  BY AppliedType DEF ApplyKey
<1>2. req[r] \in Activities /\ req[r].edit \in Edits
  BY ActivityFields DEF TypeOK
<1>3. req[r].edit[k] \in Values \cup {Drop}
  BY <1>2 DEF ApplyKey, Edits, Asked
<1>4. req[r].edit[k] # Drop => ValueToEnvString(req[r].edit[k]) \in Texts
  BY <1>3, TextsOf
<1>5. osenv' \in Environments
  BY <1>4 DEF TypeOK, ApplyKey, Environments
<1> QED BY <1>1, <1>5 DEF TypeOK, ApplyKey, history

(* Types, when a setting is. *)
LEMMA TypeSetSettingValue ==
  ASSUME TypeOK, NEW r \in Requests, NEW k \in Names, SetSettingValue(r, k)
  PROVE  TypeOK'
<1> DEFINE v == req[r].edit[k]
           field == Converted(KindOf[k], v)
<1>1. req' \in [Requests -> Activities]
  BY AppliedType DEF SetSettingValue
<1>2. req[r] \in Activities /\ req[r].edit \in Edits
  BY ActivityFields DEF TypeOK
<1>3. k \in Registry /\ v \in Values
  BY <1>2 DEF SetSettingValue, Edits, Asked
<1>4. config' = (IF field = Invalid THEN config ELSE [config EXCEPT ![k] = field])
  BY DEF SetSettingValue
<1>5. osenv' = (IF field = Invalid THEN osenv ELSE [osenv EXCEPT ![k] = Sprint(v)])
  BY DEF SetSettingValue
<1>6. config' \in [Registry -> Fields]
  BY <1>3, <1>4, ConvertedType DEF TypeOK
<1>7. osenv' \in Environments
  BY <1>3, <1>5, TextsOf DEF TypeOK, Environments
<1> QED BY <1>1, <1>6, <1>7 DEF TypeOK, SetSettingValue, history

(* Types, when the request is answered. *)
LEMMA TypeReply ==
  ASSUME TypeOK, NEW r \in Requests, Reply(r)
  PROVE  TypeOK'
<1>1. req' \in [Requests -> Activities]
  BY IdleType, OneChanges DEF TypeOK, Reply
<1> QED BY <1>1 DEF TypeOK, Reply, history

(* Types, after a restart. *)
LEMMA TypeRestart ==
  ASSUME TypeOK, Restart
  PROVE  TypeOK'
<1>1. LoadEnv \in Environments
  BY LoadEnvType DEF TypeOK
<1>2. config' \in [Registry -> Fields]
  BY <1>1, ConfigType DEF Restart
<1>3. req' \in [Requests -> Activities]
  BY IdleType DEF Restart
<1> QED BY <1>1, <1>2, <1>3 DEF TypeOK, Restart, Unsteady

(* Every step keeps the types. *)
LEMMA TypeStep == TypeOK /\ [Next]_vars => TypeOK'
<1> SUFFICES ASSUME TypeOK, [Next]_vars PROVE TypeOK'
  OBVIOUS
<1>1. ASSUME NEW r \in Requests, RequestStep(r) PROVE TypeOK'
  <2>1. ASSUME NEW edit \in Requested, Read(r, edit) PROVE TypeOK'
    BY <2>1, TypeRead
  <2>2. CASE ReadFails(r) \/ OpenFails(r)
    BY <2>2, TypeRefused
  <2>3. CASE Open(r)
    BY <2>3, TypeOpen
  <2>4. CASE Write(r)
    BY <2>4, TypeWrite
  <2>5. CASE WriteFails(r)
    BY <2>5, TypeWriteFails
  <2>6. CASE Rename(r)
    BY <2>6, TypeRename
  <2>7. CASE RenameFails(r)
    BY <2>7, TypeRenameFails
  <2>8. ASSUME NEW k \in Names, ApplyKey(r, k) PROVE TypeOK'
    BY <2>8, TypeApplyKey
  <2>9. ASSUME NEW k \in Names, SetSettingValue(r, k) PROVE TypeOK'
    BY <2>9, TypeSetSettingValue
  <2>10. CASE Reply(r)
    BY <2>10, TypeReply
  <2> QED
    BY <1>1, <2>1, <2>2, <2>3, <2>4, <2>5, <2>6, <2>7, <2>8, <2>9, <2>10 DEF RequestStep
<1>2. CASE Restart
  BY <1>2, TypeRestart
<1>3. CASE UNCHANGED vars
  BY <1>3 DEF vars, TypeOK
<1> QED BY <1>1, <1>2, <1>3 DEF Next

(* Every variable keeps its type: in particular no setting in memory ever  *)
(* holds what an unusable value was converted to (settings_registry.go).   *)
THEOREM TypeCorrect == Spec => []TypeOK
<1>1. Init => TypeOK
  BY TypeInit
<1>2. TypeOK /\ [Next]_vars => TypeOK'
  BY TypeStep
<1> QED BY <1>1, <1>2, PTL DEF Spec

-------------------------------------------------------------------------------
(* What .env says *)

(* As long as no two requests rewrite .env at once: it says what it        *)
(* should, one request at most is rewriting it, and that one carries the   *)
(* content it says next, in its temporary file as far as it has come.  It  *)
(* could parse the file it has read.                                       *)
OneRewrites ==
  \A q, r \in Requests :
    req[q].pc \in Rewriting /\ req[r].pc \in Rewriting => q = r

Carries ==
  \A r \in Requests :
    /\ req[r].pc \in Rewriting =>
         Readable(dotenv) /\ req[r].new = Merged(dotenv, req[r].edit)
    /\ req[r].pc = "write" => req[r].at = "tmp" /\ tmp = Empty
    /\ req[r].pc = "rename" => tmp = Marshalled(req[r].new)

FileInv == ~raced => dotenv = promised /\ OneRewrites /\ Carries

(* What a request that does something is doing. *)
LEMMA DoingIs ==
  ASSUME NEW pc, NEW e
  PROVE  Doing(pc, e).pc = pc /\ Doing(pc, e).edit = e
BY DEF Doing

(* What a request at rest, or refused, is doing. *)
LEMMA IdleIs == /\ Idle.pc = "idle" /\ Idle.edit = Unchanging
                /\ Refused.pc = "refused" /\ Refused.edit = Unchanging
BY DEF Idle, Refused, Doing

(* A request that leaves the rewriting, or is not in it, disturbs nothing  *)
(* that the others carry.                                                  *)
LEMMA LeavesFile ==
  ASSUME FileInv, NEW r \in Requests, raced' = raced,
         req'[r].pc \notin Rewriting,
         \A q \in Requests \ {r} : req'[q] = req[q],
         ~raced => dotenv' = dotenv /\ promised' = promised,
         tmp' = tmp \/ req[r].pc \in Rewriting
  PROVE  FileInv'
<1> SUFFICES ASSUME ~raced PROVE dotenv' = promised' /\ OneRewrites' /\ Carries'
  BY DEF FileInv
<1>1. dotenv = promised /\ OneRewrites /\ Carries
  BY DEF FileInv
<1>2. OneRewrites'
  BY <1>1 DEF OneRewrites
<1>3. ASSUME NEW q \in Requests, req'[q].pc \in Rewriting
      PROVE  q # r /\ req'[q] = req[q] /\ tmp' = tmp /\ dotenv' = dotenv
  <2>1. q # r /\ req'[q] = req[q]
    BY <1>3
  <2>2. req[r].pc \notin Rewriting
    BY <1>1, <1>3, <2>1 DEF OneRewrites
  <2> QED BY <2>1, <2>2
<1>4. \A q \in Requests : req'[q].pc \in {"write", "rename"} => req'[q].pc \in Rewriting
  BY DEF Rewriting
<1>5. Carries'
  BY <1>1, <1>3, <1>4 DEF Carries, Readable
<1> QED BY <1>1, <1>2, <1>5

(* A request that reads alone merges into what the file says. *)
LEMMA FileRead ==
  ASSUME TypeOK, FileInv, NEW r \in Requests, NEW edit \in Requested, Read(r, edit)
  PROVE  FileInv'
<1> SUFFICES ASSUME ~raced' PROVE dotenv' = promised' /\ OneRewrites' /\ Carries'
  BY DEF FileInv
<1> DEFINE a == [pc |-> "open", edit |-> edit, new |-> Merged(dotenv, edit), at |-> "tmp"]
<1>1. edit \in Edits
  BY DEF Requested
<1>2. a \in Activities
  BY <1>1, MergedType, MakeActivity DEF TypeOK, Phases
<1>3. req'[r] = a /\ \A q \in Requests \ {r} : req'[q] = req[q]
  BY <1>2, OneChanges DEF TypeOK, Read
<1>4. ~raced /\ \A q \in Requests : req[q].pc \notin Rewriting
  BY DEF Read
<1>5. dotenv = promised /\ UNCHANGED <<dotenv, tmp, promised>>
  BY <1>4 DEF FileInv, Read
<1>6. \A q \in Requests : req'[q].pc \in Rewriting => q = r
  BY <1>3, <1>4
<1>7. /\ req'[r].pc = "open" /\ req'[r].new = Merged(dotenv', req'[r].edit)
      /\ Readable(dotenv')
  BY <1>3, <1>5 DEF Read
<1>8. Carries'
  BY <1>6, <1>7 DEF Carries, Rewriting
<1> QED BY <1>5, <1>6, <1>8 DEF OneRewrites

(* A temporary file is not the file yet. *)
LEMMA FileOpen ==
  ASSUME TypeOK, FileInv, NEW r \in Requests, Open(r)
  PROVE  FileInv'
<1>0. UNCHANGED <<dotenv, promised, raced>> /\ tmp' = Empty /\ req[r].pc = "open"
  BY DEF Open, history
<1> SUFFICES ASSUME ~raced PROVE dotenv' = promised' /\ OneRewrites' /\ Carries'
  BY <1>0 DEF FileInv
<1>1. /\ req'[r] = [pc |-> "write", edit |-> req[r].edit, new |-> req[r].new, at |-> "tmp"]
      /\ \A q \in Requests \ {r} : req'[q] = req[q]
  BY Moves DEF TypeOK, Open, Phases
<1>2. dotenv = promised /\ OneRewrites /\ Carries
  BY DEF FileInv
<1>3. \A q \in Requests : req'[q].pc \in Rewriting => q = r
  BY <1>0, <1>1, <1>2 DEF OneRewrites, Rewriting
<1>4. Readable(dotenv) /\ req[r].new = Merged(dotenv, req[r].edit)
  BY <1>0, <1>2 DEF Carries, Rewriting
<1>5. Carries'
  BY <1>0, <1>1, <1>3, <1>4 DEF Carries, Rewriting
<1> QED BY <1>0, <1>2, <1>3, <1>5 DEF OneRewrites

(* Nor is it when it is written to. *)
LEMMA FileWrite ==
  ASSUME TypeOK, FileInv, NEW r \in Requests, Write(r)
  PROVE  FileInv' /\ (~raced => dotenv' = dotenv)
<1>0. UNCHANGED <<promised, raced>> /\ req[r].pc = "write"
  BY DEF Write, history
<1> SUFFICES ASSUME ~raced
             PROVE  dotenv' = promised' /\ OneRewrites' /\ Carries' /\ dotenv' = dotenv
  BY <1>0 DEF FileInv
<1>1. /\ req'[r] = [pc |-> "rename", edit |-> req[r].edit, new |-> req[r].new, at |-> req[r].at]
      /\ \A q \in Requests \ {r} : req'[q] = req[q]
  BY MovesPc DEF TypeOK, Write, Phases
<1>2. dotenv = promised /\ OneRewrites /\ Carries
  BY DEF FileInv
<1>3. \A q \in Requests : req'[q].pc \in Rewriting => q = r
  BY <1>0, <1>1, <1>2 DEF OneRewrites, Rewriting
<1>4. /\ Readable(dotenv) /\ req[r].new = Merged(dotenv, req[r].edit)
      /\ req[r].at = "tmp" /\ tmp = Empty
  BY <1>0, <1>2 DEF Carries, Rewriting
<1>5. req[r] \in Activities /\ req[r].new \in Contents
  BY ActivityFields DEF TypeOK
<1>6. tmp' = Marshalled(req[r].new) /\ dotenv' = dotenv
  BY <1>4, <1>5, MarshalledType, WrittenType DEF Write
<1>7. Carries'
  BY <1>1, <1>3, <1>4, <1>6 DEF Carries, Rewriting
<1> QED BY <1>0, <1>2, <1>3, <1>6, <1>7 DEF OneRewrites

(* A failed write leaves the file as promised. *)
LEMMA FileWriteFails ==
  ASSUME TypeOK, FileInv, NEW r \in Requests, WriteFails(r)
  PROVE  FileInv' /\ (~raced => dotenv' = dotenv)
<1>1. req'[r] = Refused /\ \A q \in Requests \ {r} : req'[q] = req[q]
  BY IdleType, OneChanges DEF TypeOK, WriteFails
<1>2. UNCHANGED <<promised, raced>> /\ req[r].pc = "write"
  BY DEF WriteFails, history
<1>3. ~raced => req[r].at = "tmp"
  BY <1>2 DEF FileInv, Carries
<1>4. ~raced => dotenv' = dotenv
  BY <1>3 DEF WriteFails
<1>5. req'[r].pc \notin Rewriting
  BY <1>1, IdleIs DEF Rewriting
<1>6. req[r].pc \in Rewriting
  BY <1>2 DEF Rewriting
<1> QED BY <1>1, <1>2, <1>4, <1>5, <1>6, LeavesFile

(* A rename puts in place what the request carries.                        *)
LEMMA FileRename ==
  ASSUME TypeOK, FileInv, NEW r \in Requests, Rename(r)
  PROVE  /\ FileInv'
         /\ ~raced => Readable(dotenv) /\ dotenv' = Marshalled(Merged(dotenv, req[r].edit))
<1>0. /\ UNCHANGED raced /\ req[r].pc = "rename" /\ dotenv' = tmp
      /\ ~raced => promised' = Marshalled(Merged(promised, req[r].edit))
  BY DEF Rename
<1> SUFFICES ASSUME ~raced
             PROVE  /\ dotenv' = promised' /\ OneRewrites' /\ Carries'
                    /\ Readable(dotenv) /\ dotenv' = Marshalled(Merged(dotenv, req[r].edit))
  BY <1>0 DEF FileInv
<1>1. req[r] \in Activities /\ req[r].edit \in Edits
  BY ActivityFields DEF TypeOK
<1>2. Doing("apply", req[r].edit) \in Activities
  BY <1>1, DoingType DEF Phases
<1>3. /\ req'[r] = Doing("apply", req[r].edit)
      /\ \A q \in Requests \ {r} : req'[q].pc = req[q].pc
  BY <1>2, OneMoves DEF TypeOK, Rename
<1>4. dotenv = promised /\ OneRewrites /\ Carries
  BY DEF FileInv
<1>5. \A q \in Requests : req'[q].pc \notin Rewriting
  BY <1>0, <1>3, <1>4, DoingIs DEF OneRewrites, Rewriting
<1>6. Readable(dotenv) /\ dotenv' = Marshalled(Merged(dotenv, req[r].edit))
  BY <1>0, <1>4 DEF Carries, Rewriting
<1> QED BY <1>0, <1>4, <1>5, <1>6 DEF OneRewrites, Carries, Rewriting

(* So does a failed rename. *)
LEMMA FileRenameFails ==
  ASSUME TypeOK, FileInv, NEW r \in Requests, RenameFails(r)
  PROVE  FileInv'
<1>0. UNCHANGED <<dotenv, promised, raced>> /\ req[r].pc = "rename"
  BY DEF RenameFails, history
<1> SUFFICES ASSUME ~raced PROVE dotenv' = promised' /\ OneRewrites' /\ Carries'
  BY <1>0 DEF FileInv
<1>1. req'[r] = Refused /\ \A q \in Requests \ {r} : req'[q].pc = req[q].pc
  BY IdleType, OneMoves DEF TypeOK, RenameFails
<1>2. dotenv = promised /\ OneRewrites
  BY DEF FileInv
<1>3. \A q \in Requests : req'[q].pc \notin Rewriting
  BY <1>0, <1>1, <1>2, IdleIs DEF OneRewrites, Rewriting
<1> QED BY <1>0, <1>2, <1>3 DEF OneRewrites, Carries, Rewriting

(* The other steps of a request do not touch the file.                     *)
LEMMA FileOther ==
  ASSUME TypeOK, FileInv, NEW r \in Requests,
         ReadFails(r) \/ OpenFails(r) \/ Reply(r)
           \/ \E k \in Names : ApplyKey(r, k) \/ SetSettingValue(r, k)
  PROVE  FileInv'
<1>1. UNCHANGED <<dotenv, tmp, promised, raced>>
  BY DEF ReadFails, OpenFails, Reply, ApplyKey, SetSettingValue, history
<1>2. req'[r].pc \in {"idle", "refused", "apply"} /\ \A q \in Requests \ {r} : req'[q] = req[q]
  <2>1. CASE ReadFails(r) \/ OpenFails(r)
    <3>1. req' = [req EXCEPT ![r] = Refused]
      BY <2>1 DEF ReadFails, OpenFails
    <3> QED BY <3>1, IdleType, OneChanges, IdleIs DEF TypeOK
  <2>2. CASE Reply(r)
    BY <2>2, IdleType, OneChanges, IdleIs DEF TypeOK, Reply
  <2>3. ASSUME NEW k \in Names, ApplyKey(r, k) \/ SetSettingValue(r, k)
        PROVE  req'[r].pc \in {"idle", "refused", "apply"}
               /\ \A q \in Requests \ {r} : req'[q] = req[q]
    <3>1. Applied(r, k)
      BY <2>3 DEF ApplyKey, SetSettingValue
    <3>2. /\ \/ req'[r] = Idle
             \/ req'[r] = Doing("apply", [req[r].edit EXCEPT ![k] = Keep])
          /\ \A q \in Requests \ {r} : req'[q] = req[q]
      BY <3>1, AppliedType
    <3>3. CASE req'[r] = Idle
      BY <3>2, <3>3, IdleIs
    <3>4. CASE req'[r] = Doing("apply", [req[r].edit EXCEPT ![k] = Keep])
      BY <3>2, <3>4, DoingIs
    <3> QED BY <3>2, <3>3, <3>4
  <2> QED BY <2>1, <2>2, <2>3
<1>3. req'[r].pc \notin Rewriting
  BY <1>2 DEF Rewriting
<1> QED BY <1>1, <1>2, <1>3, LeavesFile

(* A restart finds the file as promised. *)
LEMMA FileRestart ==
  ASSUME FileInv, Restart
  PROVE  FileInv'
<1>1. \A q \in Requests : req'[q].pc \notin Rewriting
  BY IdleIs DEF Restart, Rewriting
<1>2. dotenv' = promised'
  BY DEF Restart, FileInv
<1> QED BY <1>1, <1>2 DEF FileInv, OneRewrites, Carries, Rewriting

(* The file at the start is what it promises. *)
LEMMA FileInit == Init => FileInv
<1> SUFFICES ASSUME Init PROVE FileInv
  OBVIOUS
<1>1. \A q \in Requests : req[q].pc \notin Rewriting
  BY IdleIs DEF Init, Rewriting
<1> QED BY <1>1 DEF Init, FileInv, OneRewrites, Carries, Rewriting

(* Every step keeps the promises of the file. *)
LEMMA FileStep == TypeOK /\ FileInv /\ [Next]_vars => FileInv'
<1> SUFFICES ASSUME TypeOK, FileInv, [Next]_vars PROVE FileInv'
  OBVIOUS
<1>1. ASSUME NEW r \in Requests, RequestStep(r) PROVE FileInv'
  <2>1. ASSUME NEW edit \in Requested, Read(r, edit) PROVE FileInv'
    BY <2>1, FileRead
  <2>2. CASE ReadFails(r) \/ OpenFails(r) \/ Reply(r)
             \/ \E k \in Names : ApplyKey(r, k) \/ SetSettingValue(r, k)
    BY <2>2, FileOther
  <2>3. CASE Open(r)
    BY <2>3, FileOpen
  <2>4. CASE Write(r)
    BY <2>4, FileWrite
  <2>5. CASE WriteFails(r)
    BY <2>5, FileWriteFails
  <2>6. CASE Rename(r)
    BY <2>6, FileRename
  <2>7. CASE RenameFails(r)
    BY <2>7, FileRenameFails
  <2> QED BY <1>1, <2>1, <2>2, <2>3, <2>4, <2>5, <2>6, <2>7 DEF RequestStep
<1>2. CASE Restart
  BY <1>2, FileRestart
<1>3. CASE UNCHANGED vars
  BY <1>3 DEF vars, FileInv, OneRewrites, Carries
<1> QED BY <1>1, <1>2, <1>3 DEF Next

(* As long as no two requests rewrite .env at once, it says at every       *)
(* moment what the requests that got their file in place asked for, as far *)
(* as godotenv can write it: it is never half written and no earlier       *)
(* change is lost (dotenv.go:36-77).                                       *)
THEOREM FileSafe == Spec => []FileKeepsPromises
<1>1. Init => TypeOK /\ FileInv
  BY TypeInit, FileInit
<1>2. TypeOK /\ FileInv /\ [Next]_vars => TypeOK' /\ FileInv'
  BY TypeStep, FileStep
<1>3. FileInv => FileKeepsPromises
  BY DEF FileInv, FileKeepsPromises
<1> QED BY <1>1, <1>2, <1>3, PTL DEF Spec

-------------------------------------------------------------------------------
(* What is in the lines that nobody asks for *)

(* A name that is not odd has a line that is read again as it was written. *)
SteadyInv == ~raced => \A k \in Names \ odd : Reread(dotenv[k]) = dotenv[k]

(* The line of such a name after a rename is the one that was there, or    *)
(* what the request asked for, and again of that kind.                     *)
LEMMA RenamedAt ==
  ASSUME TypeOK, FileInv, SteadyInv, NEW r \in Requests, Rename(r), ~raced,
         NEW k \in Names \ odd'
  PROVE  /\ dotenv'[k] = IF req[r].edit[k] = Keep THEN dotenv[k]
                         ELSE IF req[r].edit[k] = Drop THEN NoText
                         ELSE ValueToEnvString(req[r].edit[k])
         /\ Reread(dotenv'[k]) = dotenv'[k]
<1> DEFINE v == req[r].edit[k]
           said == IF v = Keep THEN dotenv[k]
                   ELSE IF v = Drop THEN NoText ELSE ValueToEnvString(v)
<1>1. IF v = Keep THEN k \notin odd ELSE Survives(k, v)
  BY DEF Rename
<1>2. dotenv' = Marshalled(Merged(dotenv, req[r].edit))
  BY FileRename
<1>3. dotenv'[k] = Reread(said)
  BY <1>2, MergedAt, MarshalledAt
<1>4. Reread(said) = said
  <2>1. CASE v = Keep
    BY <1>1, <2>1 DEF SteadyInv
  <2>2. CASE v # Keep /\ v = Drop
    BY <2>2 DEF Reread, NoText
  <2>3. CASE v # Keep /\ v # Drop
    BY <1>1, <2>3 DEF Survives
  <2> QED BY <2>1, <2>2, <2>3
<1> QED BY <1>3, <1>4

(* Other steps of a request that may touch a file do not touch this one,   *)
(* as long as no two rewrite it at once.                                   *)
LEMMA FileStays ==
  ASSUME TypeOK, FileInv, NEW r \in Requests,
         \/ \E edit \in Requested : Read(r, edit)
         \/ ReadFails(r) \/ Open(r) \/ OpenFails(r) \/ Write(r) \/ WriteFails(r)
         \/ RenameFails(r) \/ Reply(r)
         \/ \E k \in Names : ApplyKey(r, k) \/ SetSettingValue(r, k)
  PROVE  (raced => raced') /\ odd' = odd /\ (~raced => dotenv' = dotenv)
<1>1. CASE \E edit \in Requested : Read(r, edit)
  BY <1>1 DEF Read
<1>2. CASE Write(r)
  BY <1>2, FileWrite DEF Write, history
<1>3. CASE WriteFails(r)
  BY <1>3, FileWriteFails DEF WriteFails, history
<1>4. CASE ReadFails(r) \/ Open(r) \/ OpenFails(r) \/ RenameFails(r) \/ Reply(r)
  BY <1>4 DEF ReadFails, Open, OpenFails, RenameFails, Reply, history
<1>5. CASE \E k \in Names : ApplyKey(r, k) \/ SetSettingValue(r, k)
  BY <1>5 DEF ApplyKey, SetSettingValue, history
<1> QED BY <1>1, <1>2, <1>3, <1>4, <1>5

(* At the start, and after a restart, the odd names are told from the file.*)
LEMMA SteadyInit == Init => SteadyInv
BY DEF Init, SteadyInv, Unsteady

(* Every step keeps the lines of that kind.                                *)
LEMMA SteadyStep == TypeOK /\ FileInv /\ SteadyInv /\ [Next]_vars => SteadyInv'
<1> SUFFICES ASSUME TypeOK, FileInv, SteadyInv, [Next]_vars PROVE SteadyInv'
  OBVIOUS
<1>1. ASSUME NEW r \in Requests, RequestStep(r) PROVE SteadyInv'
  <2>1. CASE Rename(r)
    <3>1. raced' = raced
      BY <2>1 DEF Rename
    <3> QED BY <2>1, <3>1, RenamedAt DEF SteadyInv
  <2>2. CASE ~Rename(r)
    <3>1. (raced => raced') /\ odd' = odd /\ (~raced => dotenv' = dotenv)
      BY <1>1, <2>2, FileStays DEF RequestStep
    <3> QED BY <3>1 DEF SteadyInv
  <2> QED BY <2>1, <2>2
<1>2. CASE Restart
  BY <1>2 DEF Restart, SteadyInv, Unsteady
<1>3. CASE UNCHANGED vars
  BY <1>3 DEF vars, SteadyInv
<1> QED BY <1>1, <1>2, <1>3 DEF Next

(* A step that changes a line of that kind is a rename that was asked to.  *)
LEMMA UnaskedStep ==
  ASSUME TypeOK, FileInv, SteadyInv, Next, ~raced, NEW k \in Names \ odd,
         dotenv'[k] # dotenv[k]
  PROVE  \E r \in Requests : req[r].pc = "rename" /\ req[r].edit[k] # Keep
<1>1. ~Restart
  BY DEF Restart
<1>2. PICK r \in Requests : RequestStep(r)
  BY <1>1 DEF Next
<1>3. Rename(r)
  BY <1>2, FileStays DEF RequestStep
<1>4. req[r].pc = "rename"
  BY <1>3 DEF Rename
<1>5. ASSUME req[r].edit[k] = Keep PROVE FALSE
  <2>1. k \notin odd'
    BY <1>3, <1>5 DEF Rename
  <2> QED BY <1>3, <1>5, <2>1, RenamedAt
<1> QED BY <1>4, <1>5

(* Rewriting the file does not touch what nobody asks to change: a line    *)
(* that godotenv reads as it has written it stays until a request for its  *)
(* name replaces the file (dotenv.go:36-56).                               *)
THEOREM UnaskedSafe == Spec => UnaskedLinesStay
<1>1. Init => TypeOK /\ FileInv /\ SteadyInv
  BY TypeInit, FileInit, SteadyInit
<1>2. TypeOK /\ FileInv /\ SteadyInv /\ [Next]_vars => TypeOK' /\ FileInv' /\ SteadyInv'
  BY TypeStep, FileStep, SteadyStep
<1>3. TypeOK /\ FileInv /\ SteadyInv /\ [Next]_vars =>
        [~raced => \A k \in Names \ odd :
           \/ dotenv'[k] = dotenv[k]
           \/ \E r \in Requests : req[r].pc = "rename" /\ req[r].edit[k] # Keep]_vars
  BY UnaskedStep
<1> QED BY <1>1, <1>2, <1>3, PTL DEF Spec, UnaskedLinesStay

-------------------------------------------------------------------------------
(* What is in memory *)

(* As long as the requests change the memory in the order in which they    *)
(* have replaced the file, and it can be parsed: a name that no request    *)
(* has still to change agrees with its line, and one that a request has    *)
(* still to change will.                                                   *)
Pending(r, k) == req[r].pc = "apply" /\ req[r].edit[k] # Keep

Agrees(k) == /\ k \in Registry => config[k] = Loaded(k, dotenv[k])
             /\ k \in KeyVars => osenv[k] = dotenv[k]

WillAgree(r, k) ==
  /\ dotenv[k] = IF req[r].edit[k] = Drop THEN NoText ELSE ValueToEnvString(req[r].edit[k])
  /\ k \in Registry => WellTyped(KindOf[k], req[r].edit[k])

MemInv ==
  ~raced /\ ~late /\ Readable(dotenv) =>
    \A k \in Names \ odd :
      /\ \A r \in Requests : Pending(r, k) => WillAgree(r, k)
      /\ Inherited[k] = NoText /\ (\A r \in Requests : ~Pending(r, k)) => Agrees(k)

(* What is written for a value of a setting's own type is loaded as what   *)
(* the value is converted to: the two ways into Config agree.              *)
LEMMA SameField ==
  ASSUME NEW k \in Registry, NEW v \in Values, WellTyped(KindOf[k], v)
  PROVE  /\ Converted(KindOf[k], v) # Invalid
         /\ Converted(KindOf[k], v) = Loaded(k, ValueToEnvString(v))
<1> DEFINE kind == KindOf[k]
<1>1. kind \in Kinds
  BY SettingsAssumption DEF SettingsAssumption
<1>2. CASE kind = "toggle"
  <2>1. PICK b \in BOOLEAN : v = <<"bool", b>>
    BY <1>2, ValueForms DEF WellTyped
  <2>2. Converted(kind, v) = <<"flag", b>>
    BY <1>2, <2>1 DEF Converted
  <2>3. ValueToEnvString(v) = <<"flag", b>>
    BY <2>1 DEF ValueToEnvString, Sprint
  <2>4. Parse(kind, <<"flag", b>>) = <<"flag", b>>
    BY <1>2 DEF Parse
  <2>5. <<"flag", b>> \notin {NoText, Blank, Invalid}
    BY DEF NoText, Blank, Invalid
  <2> QED BY <2>2, <2>3, <2>4, <2>5 DEF Loaded
<1>3. CASE kind = "number"
  <2>1. PICK n \in Nat : v = <<"number", n>>
    BY <1>3, ValueForms DEF WellTyped
  <2>2. n % 10 = 0
    BY <1>3, <2>1 DEF WellTyped
  <2>3. Converted(kind, v) = <<"decimal", n - (n % 10)>>
    BY <1>3, <2>1 DEF Converted
  <2>4. n - (n % 10) = n
    BY <2>2
  <2>5. ValueToEnvString(v) = <<"decimal", n>>
    BY <2>1 DEF ValueToEnvString
  <2>6. Parse(kind, <<"decimal", n>>) = <<"decimal", n>>
    BY <1>3, <2>2 DEF Parse
  <2>7. <<"decimal", n>> \notin {NoText, Blank, Invalid}
    BY DEF NoText, Blank, Invalid
  <2> QED BY <2>3, <2>4, <2>5, <2>6, <2>7 DEF Loaded
<1>4. CASE kind = "duration"
  <2>1. PICK f \in Forms : \E x : v = <<"string", <<f, x>>>>
    BY <1>4, ValueForms DEF WellTyped
  <2>2. PICK x : v = <<"string", <<f, x>>>>
    BY <2>1
  <2>3. f = "span"
    BY <1>4, <2>2 DEF WellTyped
  <2>4. Sprint(v) = <<"span", x>> /\ ValueToEnvString(v) = <<"span", x>>
    BY <2>2, <2>3 DEF ValueToEnvString, Sprint
  <2>5. Parse(kind, <<"span", x>>) = <<"span", x>>
    BY <1>4 DEF Parse
  <2>6. Converted(kind, v) = <<"span", x>>
    BY <1>4, <2>4, <2>5 DEF Converted
  <2>7. <<"span", x>> \notin {NoText, Blank, Invalid}
    BY DEF NoText, Blank, Invalid
  <2> QED BY <2>4, <2>5, <2>6, <2>7 DEF Loaded
<1>5. CASE kind = "ratio"
  <2>1. PICK n \in Nat : v = <<"number", n>>
    BY <1>5, ValueForms DEF WellTyped
  <2>2. Converted(kind, v) = <<"decimal", n>>
    BY <1>5, <2>1 DEF Converted
  <2>3. ValueToEnvString(v) = <<"decimal", n>>
    BY <2>1 DEF ValueToEnvString
  <2>4. Parse(kind, <<"decimal", n>>) = <<"decimal", n>>
    BY <1>5 DEF Parse
  <2>5. <<"decimal", n>> \notin {NoText, Blank, Invalid}
    BY DEF NoText, Blank, Invalid
  <2> QED BY <2>2, <2>3, <2>4, <2>5 DEF Loaded
<1>6. CASE kind = "text"
  <2>1. PICK f \in Forms : \E x : v = <<"string", <<f, x>>>>
    BY <1>6, ValueForms DEF WellTyped
  <2>2. PICK x : v = <<"string", <<f, x>>>>
    BY <2>1
  <2>3. Sprint(v) = <<f, x>> /\ ValueToEnvString(v) = <<f, x>>
    BY <2>2 DEF ValueToEnvString, Sprint
  <2>4. <<f, x>> # Blank
    BY <1>6, <2>2 DEF WellTyped
  <2>5. Parse(kind, <<f, x>>) = <<f, x>>
    BY <1>6 DEF Parse
  <2>6. Converted(kind, v) = <<f, x>>
    BY <1>6, <2>3, <2>5 DEF Converted
  <2>7. <<f, x>> \notin {NoText, Invalid}
    BY DEF NoText, Invalid, Forms
  <2> QED BY <2>3, <2>4, <2>5, <2>6, <2>7 DEF Loaded
<1> QED BY <1>1, <1>2, <1>3, <1>4, <1>5, <1>6 DEF Kinds

(* A step that leaves alone what is applied and to what.                   *)
LEMMA MemSame ==
  ASSUME MemInv, UNCHANGED <<config, osenv, odd>>,
         ~raced' /\ ~late' => ~raced /\ ~late /\ dotenv' = dotenv,
         \A q \in Requests : (req'[q].pc = "apply") <=> (req[q].pc = "apply"),
         \A q \in Requests : req[q].pc = "apply" => req'[q].edit = req[q].edit
  PROVE  MemInv'
<1> SUFFICES ASSUME ~raced', ~late', Readable(dotenv'), NEW k \in Names \ odd'
             PROVE  /\ \A r \in Requests : Pending(r, k)' => WillAgree(r, k)'
                    /\ Inherited[k] = NoText /\ (\A r \in Requests : ~Pending(r, k)') => Agrees(k)'
  BY DEF MemInv
<1>1. \A r \in Requests : /\ Pending(r, k)' <=> Pending(r, k)
                          /\ Pending(r, k) => req'[r].edit = req[r].edit
  BY DEF Pending
<1>2. dotenv' = dotenv /\ ~raced /\ ~late
  OBVIOUS
<1>3. /\ \A r \in Requests : Pending(r, k) => WillAgree(r, k)
      /\ Inherited[k] = NoText /\ (\A r \in Requests : ~Pending(r, k)) => Agrees(k)
  BY <1>2 DEF MemInv
<1>4. \A r \in Requests : Pending(r, k)' => WillAgree(r, k)'
  BY <1>1, <1>2, <1>3 DEF WillAgree
<1>5. Agrees(k)' <=> Agrees(k)
  BY <1>2 DEF Agrees
<1> QED BY <1>1, <1>2, <1>3, <1>4, <1>5

(* Steps that leave memory and file alone keep them in agreement. *)
LEMMA MemUntouched ==
  ASSUME TypeOK, FileInv, MemInv, NEW r \in Requests,
         \/ \E edit \in Requested : Read(r, edit)
         \/ ReadFails(r) \/ Open(r) \/ OpenFails(r) \/ Write(r) \/ WriteFails(r)
         \/ RenameFails(r) \/ Reply(r)
  PROVE  MemInv'
<1>1. UNCHANGED <<config, osenv, late>>
  BY DEF Read, ReadFails, Open, OpenFails, Write, WriteFails, RenameFails, Reply, history
<1>2. (raced => raced') /\ odd' = odd /\ (~raced => dotenv' = dotenv)
  BY FileStays
<1>3. /\ req[r].pc # "apply" /\ req'[r].pc # "apply"
      /\ \A q \in Requests \ {r} : req'[q].pc = req[q].pc /\ req'[q].edit = req[q].edit
  <2>1. ASSUME NEW edit \in Requested, Read(r, edit)
        PROVE  /\ req[r].pc # "apply" /\ req'[r].pc # "apply"
               /\ \A q \in Requests \ {r} : req'[q] = req[q]
    BY <2>1 DEF TypeOK, Read
  <2>2. ASSUME ReadFails(r) \/ OpenFails(r) \/ WriteFails(r) \/ Reply(r)
        PROVE  /\ req[r].pc # "apply" /\ req'[r].pc # "apply"
               /\ \A q \in Requests \ {r} : req'[q] = req[q]
    <3>1. PICK a \in {Idle, Refused} : req' = [req EXCEPT ![r] = a]
      BY <2>2 DEF ReadFails, OpenFails, WriteFails, Reply
    <3>2. req[r].pc # "apply"
      BY <2>2 DEF ReadFails, OpenFails, WriteFails, Reply
    <3>3. a.pc # "apply"
      BY IdleIs
    <3> QED BY <3>1, <3>2, <3>3 DEF TypeOK
  <2>3. CASE Open(r)
    <3>1. /\ req'[r] = [pc |-> "write", edit |-> req[r].edit, new |-> req[r].new, at |-> "tmp"]
          /\ \A q \in Requests \ {r} : req'[q] = req[q]
      BY <2>3, Moves DEF TypeOK, Open, Phases
    <3>2. req'[r].pc = "write" /\ req[r].pc = "open"
      BY <2>3, <3>1 DEF Open
    <3> QED BY <3>1, <3>2
  <2>4. CASE Write(r)
    <3>1. req'[r].pc = "rename" /\ \A q \in Requests \ {r} : req'[q] = req[q]
      BY <2>4, MovesPc DEF TypeOK, Write, Phases
    <3> QED BY <2>4, <3>1 DEF Write
  <2>5. CASE RenameFails(r)
    BY <2>5, OneMoves, IdleType, IdleIs DEF TypeOK, RenameFails
  <2> QED BY <2>1, <2>2, <2>3, <2>4, <2>5
<1> QED BY <1>1, <1>2, <1>3, MemSame

(* The new file agrees with memory but for names still to be applied. *)
LEMMA MemRename ==
  ASSUME TypeOK, FileInv, SteadyInv, MemInv, NEW r \in Requests, Rename(r)
  PROVE  MemInv'
<1> SUFFICES ASSUME ~raced', ~late', Readable(dotenv'), NEW k \in Names \ odd'
             PROVE  /\ \A q \in Requests : Pending(q, k)' => WillAgree(q, k)'
                    /\ Inherited[k] = NoText /\ (\A q \in Requests : ~Pending(q, k)') => Agrees(k)'
  BY DEF MemInv
<1> DEFINE v == req[r].edit[k]
<1>1. /\ ~raced /\ ~late /\ req[r].pc = "rename" /\ UNCHANGED <<osenv, config>>
      /\ \A q \in Requests \ {r} : req[q].pc # "apply"
      /\ IF v = Keep THEN k \notin odd ELSE Survives(k, v)
  BY DEF Rename
<1>2. Readable(dotenv)
  BY <1>1, FileRename
<1>3. req[r] \in Activities /\ req[r].edit \in Edits
  BY ActivityFields DEF TypeOK
<1>4. Doing("apply", req[r].edit) \in Activities
  BY <1>3, DoingType DEF Phases
<1>5. /\ req'[r] = Doing("apply", req[r].edit)
      /\ \A q \in Requests \ {r} : req'[q].pc = req[q].pc
  BY <1>4, OneMoves DEF TypeOK, Rename
<1>6. req'[r].pc = "apply" /\ req'[r].edit = req[r].edit
  BY <1>5, DoingIs
<1>7. \A q \in Requests : ~Pending(q, k)
  BY <1>1 DEF Pending
<1>8. \A q \in Requests : Pending(q, k)' => q = r
  BY <1>1, <1>5 DEF Pending
<1>9. dotenv'[k] = IF v = Keep THEN dotenv[k]
                   ELSE IF v = Drop THEN NoText ELSE ValueToEnvString(v)
  BY <1>1, RenamedAt
<1>10. k \in Registry => v # Drop
  BY <1>3 DEF Edits
<1>11. Pending(r, k)' => WillAgree(r, k)'
  <2> SUFFICES ASSUME Pending(r, k)' PROVE WillAgree(r, k)'
    OBVIOUS
  <2>1. v # Keep
    BY <1>6 DEF Pending
  <2>2. dotenv'[k] = IF v = Drop THEN NoText ELSE ValueToEnvString(v)
    BY <1>9, <2>1
  <2>3. k \in Registry => WellTyped(KindOf[k], v)
    BY <1>1, <1>10, <2>1 DEF Survives
  <2> QED BY <1>6, <2>2, <2>3 DEF WillAgree
<1>12. ASSUME Inherited[k] = NoText, ~Pending(r, k)' PROVE Agrees(k)'
  <2>1. v = Keep
    BY <1>6, <1>12 DEF Pending
  <2>2. dotenv'[k] = dotenv[k] /\ k \notin odd
    BY <1>1, <1>9, <2>1
  <2>3. Agrees(k)
    BY <1>1, <1>2, <1>7, <1>12, <2>2 DEF MemInv
  <2> QED BY <1>1, <2>2, <2>3 DEF Agrees
<1> QED BY <1>8, <1>11, <1>12

(* Changing one name in memory: it agrees then, the others are as before.  *)
LEMMA MemApply ==
  ASSUME TypeOK, MemInv, NEW r \in Requests, NEW k \in Names,
         ApplyKey(r, k) \/ SetSettingValue(r, k)
  PROVE  MemInv'
<1> SUFFICES ASSUME ~raced', ~late', Readable(dotenv'), NEW n \in Names \ odd'
             PROVE  /\ \A q \in Requests : Pending(q, n)' => WillAgree(q, n)'
                    /\ Inherited[n] = NoText /\ (\A q \in Requests : ~Pending(q, n)') => Agrees(n)'
  BY DEF MemInv
<1>1. /\ UNCHANGED <<dotenv, tmp, promised, odd, raced, late>> /\ req[r].pc = "apply"
      /\ Applied(r, k) /\ k \in Asked(req[r].edit)
  BY DEF ApplyKey, SetSettingValue, history
<1>2. req[r] \in Activities /\ req[r].edit \in Edits
  BY ActivityFields DEF TypeOK
<1>3. Pending(r, k) /\ (k \notin odd => WillAgree(r, k))
  BY <1>1 DEF MemInv, Pending, Asked
<1>4. /\ \/ req'[r] = Idle /\ \A m \in Names \ {k} : req[r].edit[m] = Keep
         \/ req'[r] = Doing("apply", [req[r].edit EXCEPT ![k] = Keep])
      /\ \A q \in Requests \ {r} : req'[q] = req[q]
  BY <1>1, AppliedType
<1>5. /\ ~Pending(r, k)'
      /\ n # k => (Pending(r, n)' <=> Pending(r, n))
      /\ Pending(r, n)' => req'[r].edit[n] = req[r].edit[n]
  <2>1. CASE req'[r] = Idle /\ \A m \in Names \ {k} : req[r].edit[m] = Keep
    BY <2>1, IdleIs DEF Pending
  <2>2. CASE req'[r] = Doing("apply", [req[r].edit EXCEPT ![k] = Keep])
    <3>1. req'[r].pc = "apply" /\ req'[r].edit = [req[r].edit EXCEPT ![k] = Keep]
      BY <2>2, DoingIs
    <3>2. req'[r].edit[k] = Keep /\ (n # k => req'[r].edit[n] = req[r].edit[n])
      BY <1>2, <3>1 DEF Edits
    <3> QED BY <1>1, <3>1, <3>2 DEF Pending
  <2> QED BY <1>4, <2>1, <2>2
<1>6. \A q \in Requests \ {r} : Pending(q, n)' <=> Pending(q, n)
  BY <1>4 DEF Pending
<1>7. \A q \in Requests : Pending(q, n)' => WillAgree(q, n)'
  <2> SUFFICES ASSUME NEW q \in Requests, Pending(q, n)' PROVE WillAgree(q, n)'
    OBVIOUS
  <2>1. Pending(q, n) /\ req'[q].edit[n] = req[q].edit[n]
    BY <1>4, <1>5, <1>6
  <2>2. WillAgree(q, n)
    BY <1>1, <2>1 DEF MemInv
  <2> QED BY <1>1, <2>1, <2>2 DEF WillAgree
<1>8. ASSUME n = k PROVE Agrees(n)'
  <2>1. CASE ApplyKey(r, k)
    <3>1. k \in KeyVars /\ osenv' = [osenv EXCEPT ![k] = IF req[r].edit[k] = Drop THEN NoText
                                                         ELSE ValueToEnvString(req[r].edit[k])]
      BY <2>1 DEF ApplyKey
    <3>2. osenv'[k] = dotenv[k]
      BY <1>1, <1>3, <1>8, <3>1 DEF WillAgree, TypeOK, Environments
    <3> QED BY <1>1, <1>8, <3>1, <3>2, NamesSplit DEF Agrees
  <2>2. CASE SetSettingValue(r, k)
    <3> DEFINE v == req[r].edit[k]
               field == Converted(KindOf[k], v)
    <3>1. k \in Registry /\ k \notin KeyVars /\ v \in Values
      BY <1>2, <2>2, NamesSplit DEF SetSettingValue, Edits, Asked
    <3>2. config' = IF field = Invalid THEN config ELSE [config EXCEPT ![k] = field]
      BY <2>2 DEF SetSettingValue
    <3>3. v # Drop
      BY <1>2, <3>1 DEF Edits
    <3>4. config'[k] = Loaded(k, dotenv[k])
      <4>1. WellTyped(KindOf[k], v) /\ dotenv[k] = ValueToEnvString(v)
        BY <1>1, <1>3, <1>8, <3>1, <3>3 DEF WillAgree
      <4>2. field # Invalid /\ field = Loaded(k, ValueToEnvString(v))
        BY <3>1, <4>1, SameField
      <4> QED BY <3>1, <3>2, <4>1, <4>2 DEF TypeOK
    <3> QED BY <1>1, <1>8, <3>1, <3>4 DEF Agrees
  <2> QED BY <2>1, <2>2
<1>9. ASSUME n # k, Inherited[n] = NoText, \A q \in Requests : ~Pending(q, n)'
      PROVE  Agrees(n)'
  <2>1. \A q \in Requests : ~Pending(q, n)
    BY <1>5, <1>6, <1>9
  <2>2. Agrees(n)
    BY <1>1, <1>9, <2>1 DEF MemInv
  <2>3. n \in Registry => config'[n] = config[n]
    BY <1>9 DEF ApplyKey, SetSettingValue, TypeOK
  <2>4. osenv'[n] = osenv[n]
    BY <1>9 DEF ApplyKey, SetSettingValue, TypeOK, Environments
  <2> QED BY <1>1, <2>2, <2>3, <2>4 DEF Agrees
<1> QED BY <1>7, <1>8, <1>9

(* What has just been loaded agrees.                                       *)
LEMMA LoadedAgrees ==
  ASSUME NEW k \in Names, Inherited[k] = NoText, Readable(dotenv), osenv = LoadEnv,
         config = [n \in Registry |-> Loaded(n, osenv[n])]
  PROVE  Agrees(k)
<1>1. osenv[k] = dotenv[k]
  BY DEF LoadEnv
<1>2. k \in Registry => config[k] = Loaded(k, dotenv[k])
  BY <1>1
<1> QED BY <1>1, <1>2 DEF Agrees

(* At the start memory is loaded from the file. *)
LEMMA MemInit == Init => MemInv
<1> SUFFICES ASSUME Init, Readable(dotenv) PROVE MemInv
  BY DEF MemInv
<1>1. \A r \in Requests, k \in Names : ~Pending(r, k)
  BY IdleIs DEF Init, Pending
<1>2. \A k \in Names : Inherited[k] = NoText => Agrees(k)
  BY LoadedAgrees DEF Init
<1> QED BY <1>1, <1>2 DEF MemInv

(* So it is after a restart. *)
LEMMA MemRestart ==
  ASSUME Restart
  PROVE  MemInv'
<1> SUFFICES ASSUME Readable(dotenv') PROVE MemInv'
  BY DEF MemInv
<1>1. \A r \in Requests, k \in Names : ~Pending(r, k)'
  BY IdleIs DEF Restart, Pending
<1>2. ASSUME NEW k \in Names, Inherited[k] = NoText PROVE Agrees(k)'
  <2>1. osenv'[k] = dotenv'[k]
    BY <1>2 DEF Restart, LoadEnv
  <2>2. k \in Registry => config'[k] = Loaded(k, dotenv'[k])
    BY <2>1 DEF Restart
  <2> QED BY <2>1, <2>2 DEF Agrees
<1> QED BY <1>1, <1>2 DEF MemInv

(* Every step keeps memory and file in agreement. *)
LEMMA MemStep == TypeOK /\ FileInv /\ SteadyInv /\ MemInv /\ [Next]_vars => MemInv'
<1> SUFFICES ASSUME TypeOK, FileInv, SteadyInv, MemInv, [Next]_vars PROVE MemInv'
  OBVIOUS
<1>1. ASSUME NEW r \in Requests, RequestStep(r) PROVE MemInv'
  <2>1. CASE \/ \E edit \in Requested : Read(r, edit)
             \/ ReadFails(r) \/ Open(r) \/ OpenFails(r) \/ Write(r) \/ WriteFails(r)
             \/ RenameFails(r) \/ Reply(r)
    BY <2>1, MemUntouched
  <2>2. CASE Rename(r)
    BY <2>2, MemRename
  <2>3. ASSUME NEW k \in Names, ApplyKey(r, k) \/ SetSettingValue(r, k) PROVE MemInv'
    BY <2>3, MemApply
  <2> QED BY <1>1, <2>1, <2>2, <2>3 DEF RequestStep
<1>2. CASE Restart
  BY <1>2, MemRestart
<1>3. CASE UNCHANGED vars
  BY <1>3, MemSame DEF vars
<1> QED BY <1>1, <1>2, <1>3 DEF Next

(* In agreement, a restart changes nothing. *)
LEMMA MemQuiet == MemInv => RestartChangesNothing
<1> SUFFICES ASSUME MemInv, \A r \in Requests : req[r].pc = "idle", ~raced, ~late,
                    Readable(dotenv), NEW k \in Names \ odd, Inherited[k] = NoText
             PROVE  /\ k \in Registry => config[k] = Loaded(k, dotenv[k])
                    /\ k \in KeyVars => osenv[k] = dotenv[k]
  BY DEF RestartChangesNothing
<1>1. \A r \in Requests : ~Pending(r, k)
  BY DEF Pending
<1>2. Agrees(k)
  BY <1>1 DEF MemInv
<1> QED BY <1>2 DEF Agrees

(* Between requests the process runs with what a restart would give it:    *)
(* memory and file are changed in the same order, the text written for a   *)
(* value loads as the value, and the texts that godotenv reads as it wrote *)
(* them are not changed by the requests of others                          *)
(* (settings_handlers.go:92-110, settings_registry.go:263-406,             *)
(* dotenv.go:36-64, config.go:201-282).                                    *)
THEOREM RestartSafe == Spec => []RestartChangesNothing
<1>1. Init => TypeOK /\ FileInv /\ SteadyInv /\ MemInv
  BY TypeInit, FileInit, SteadyInit, MemInit
<1>2. TypeOK /\ FileInv /\ SteadyInv /\ MemInv /\ [Next]_vars =>
        TypeOK' /\ FileInv' /\ SteadyInv' /\ MemInv'
  BY TypeStep, FileStep, SteadyStep, MemStep
<1>3. MemInv => RestartChangesNothing
  BY MemQuiet
<1> QED BY <1>1, <1>2, <1>3, PTL DEF Spec
================================================================================
