------------------------------- MODULE Settings -------------------------------
(***************************************************************************)
(* Settings and API keys changed at run time (settings_handlers.go,        *)
(* apikeys_handlers.go): the .env file is read, merged, written to         *)
(* .env.tmp and renamed (dotenv.go), then the configuration in memory and  *)
(* the environment of the process are changed (settings_registry.go).  No  *)
(* lock is held and all requests share one temporary file.  A restart      *)
(* loads the environment and the configuration again (config.go, Load).    *)
(*                                                                         *)
(* A file is what godotenv.Read makes of it, a function from names to      *)
(* texts; an empty one has no text for any name and reads like one that is *)
(* not there.                                                              *)
(***************************************************************************)
EXTENDS Integers, FiniteSets

CONSTANTS Requests,  (* goroutines that handle requests                     *)
          Registry,  (* keys of the settings registry                       *)
          KeyVars,   (* environment variables that hold API keys            *)
          KindOf,    (* the type of each setting's field in Config          *)
          Default,   (* what Load gives a setting without a usable text     *)
          Values,    (* JSON values that clients send                       *)
          Inherited, (* the environment the process is started with         *)
          Handmade,  (* what .env may say at the first start                *)
          NoFile,    (* the content of a temporary file that is not there   *)
          Mounted,   (* .env is a bind mount: nothing is renamed over it    *)
          Faults     (* whether reading and writing files may fail          *)

Kinds == {"toggle", "number", "duration", "ratio", "text"}

Names == Registry \cup KeyVars

(* Texts, by what the parsers of strconv and time can tell: true or false, *)
(* a decimal numeral (in tenths), one with an exponent, an integer with    *)
(* leading zeros, a time span, other; and by what godotenv can tell of the *)
(* others: one that ends in a double quote, one that ends in a backslash.  *)
Forms == {"flag", "decimal", "exponent", "padded", "span", "word", "quote", "backslash"}

NoText == <<"none", 0>>
Blank  == <<"word", "">>

(* The line of a value that cannot be parsed, nor can the file it is in.   *)
Broken == <<"broken", 0>>

(* What godotenv.Read makes of the line that godotenv.Marshal writes for a *)
(* text.  What Atoi takes is written as the bare integer.  All else is     *)
(* quoted and escaped, but the parser takes the quotes off before it       *)
(* removes the escapes, so that of \" at the end the backslash is left, and *)
(* takes the closing quote after a backslash for an escaped one.           *)
Reread(t) ==
  CASE t[1] = "padded"    -> <<"decimal", t[2]>>
    [] t[1] = "quote"     -> <<"backslash", t[2]>>
    [] t[1] = "backslash" -> Broken
    [] OTHER              -> t

(* A JSON value is a boolean, a number (in tenths) or a string (a text).   *)
(* fmt's %v prints a number from a million on with an exponent.            *)
Sprint(v) ==
  CASE v[1] = "bool"   -> <<"flag", v[2]>>
    [] v[1] = "number" -> <<IF v[2] >= 10000000 THEN "exponent" ELSE "decimal", v[2]>>
    [] v[1] = "string" -> v[2]

(* Wrong variant: numbers are written the way fmt prints them.             *)
ValuePrinted(v) == Sprint(v)

ValueToEnvString(v) == IF v[1] = "number" THEN <<"decimal", v[2]>> ELSE Sprint(v)

Sent == {ValueToEnvString(v) : v \in Values} \cup {Sprint(v) : v \in Values}

Texts == Sent \cup ({Reread(t) : t \in Sent} \ {Broken})

Environments == [Names -> Texts \cup {NoText}]

Contents == [Names -> Texts \cup {NoText, Broken}]

Readable(content) == \A k \in Names : content[k] # Broken

Empty == [k \in Names |-> NoText]

(* What a parser returns when it fails.                                    *)
Invalid == <<"error", 0>>

Parse(kind, t) ==
  CASE kind = "toggle" ->
         IF t[1] = "flag" THEN t
         ELSE IF t \in {<<"decimal", 0>>, <<"decimal", 10>>} THEN <<"flag", t[2] = 10>>
         ELSE Invalid
    [] kind = "number" ->
         IF t[1] = "padded" \/ (t[1] = "decimal" /\ t[2] % 10 = 0) THEN <<"decimal", t[2]>>
         ELSE Invalid
    [] kind = "duration" ->
         IF t[1] = "span" THEN t ELSE IF t = <<"decimal", 0>> THEN <<"span", 0>> ELSE Invalid
    [] kind = "ratio" ->
         IF t[1] \in {"decimal", "exponent", "padded"} THEN <<"decimal", t[2]>> ELSE Invalid
    [] kind = "text" -> t

(* SetSettingValue: strings are parsed, JSON booleans and numbers          *)
(* converted; a duration or a text is taken from the printed value.        *)
Converted(kind, v) ==
  IF kind \in {"duration", "text"} \/ v[1] = "string" THEN Parse(kind, Sprint(v))
  ELSE IF v[1] = "bool" THEN IF kind = "toggle" THEN <<"flag", v[2]>> ELSE Invalid
  ELSE CASE kind = "toggle" -> <<"flag", v[2] # 0>>
         [] kind = "number" -> <<"decimal", v[2] - (v[2] % 10)>>
         [] kind = "ratio"  -> <<"decimal", v[2]>>

(* getEnv and its siblings: without a text, with an empty or an unusable   *)
(* one the default is taken.                                               *)
Loaded(k, t) ==
  IF t \in {NoText, Blank, Invalid} \/ Parse(KindOf[k], t) = Invalid THEN Default[k]
  ELSE Parse(KindOf[k], t)

Fields == ({Default[k] : k \in Registry}
           \cup {Parse(kind, t) : kind \in Kinds, t \in Texts}
           \cup {Converted(kind, v) : kind \in Kinds, v \in Values}) \ {Invalid}

ASSUME SettingsAssumption ==
  /\ Registry \cap KeyVars = {}
  /\ KindOf \in [Registry -> Kinds]
  /\ \A k \in Registry : Default[k] # Invalid
  /\ \A v \in Values :
       \/ v = <<"bool", v[2]>> /\ v[2] \in BOOLEAN
       \/ v = <<"number", v[2]>> /\ v[2] \in Nat
       \/ v = <<"string", v[2]>> /\ v[2] = <<v[2][1], v[2][2]>> /\ v[2][1] \in Forms
  /\ Inherited \in Environments
  /\ Handmade \subseteq Contents
  /\ NoFile \notin Contents
  /\ Mounted \in BOOLEAN /\ Faults \in BOOLEAN

VARIABLES dotenv,   (* the content of .env                                  *)
          tmp,      (* the content of .env.tmp, or NoFile                   *)
          osenv,    (* the environment of the process                       *)
          config,   (* the fields of Config the settings stand for          *)
          req,      (* req[r]: what goroutine r is doing                    *)
          promised, (* history: what the requests that got their file in    *)
                    (* place asked .env to say, one after the other         *)
          odd,      (* history: names last given a value of a wrong type,   *)
                    (* or a text that is not read as it was written         *)
          raced,    (* history: two requests have rewritten .env at once    *)
          late      (* history: a request has replaced .env between another *)
                    (* one's replacing it and changing the memory           *)

history == <<promised, odd, raced, late>>
vars == <<dotenv, tmp, osenv, config, req, promised, odd, raced, late>>

(* What a request asks of each name: a value, to drop the line, nothing.   *)
(* Only the lines of API keys are dropped.                                 *)
Keep == <<"keep", 0>>
Drop == <<"drop", 0>>

Edits == {e \in [Names -> Values \cup {Keep, Drop}] : \A k \in Registry : e[k] # Drop}

Asked(edit) == {k \in Names : edit[k] # Keep}

(* Wrong variant: what was in the file is not kept.                        *)
MergedAlone(content, edit) ==
  [k \in Names |-> IF edit[k] \in {Keep, Drop} THEN NoText ELSE ValueToEnvString(edit[k])]

Merged(content, edit) ==
  [k \in Names |-> IF edit[k] = Keep THEN content[k]
                   ELSE IF edit[k] = Drop THEN NoText ELSE ValueToEnvString(edit[k])]

(* godotenv.Marshal writes all lines anew, those that no request asked to  *)
(* change as well.                                                         *)
Marshalled(content) == [k \in Names |-> Reread(content[k])]

(* The handlers' inputs: handlePatchSettings takes any settings of the     *)
(* registry, handleSetApiKey one variable and a string that is not empty,  *)
(* handleDeleteApiKey one variable.                                        *)
Requested ==
  {edit \in Edits :
     \/ Asked(edit) # {} /\ Asked(edit) \subseteq Registry
     \/ \E k \in KeyVars :
          /\ Asked(edit) = {k}
          /\ edit[k] # Drop => (edit[k][1] = "string" /\ edit[k][2] # Blank)}

(* "open": the file is read and merged; "write": .env.tmp is open and      *)
(* truncated; "rename": it is written and closed; "apply": it is in place; *)
(* "refused": the answer is 500.                                           *)
Phases == {"idle", "open", "write", "rename", "apply", "refused"}

Rewriting == {"open", "write", "rename"}

(* at: where the file r has open is now, since it was opened as .env.tmp.  *)
Activities == [pc : Phases, edit : Edits, new : Contents, at : {"tmp", "env", "gone"}]

Unchanging == [k \in Names |-> Keep]

Doing(pc, edit) == [pc |-> pc, edit |-> edit, new |-> Empty, at |-> "tmp"]

Idle == Doing("idle", Unchanging)

Refused == Doing("refused", Unchanging)

TypeOK ==
  /\ dotenv \in Contents
  /\ tmp \in Contents \cup {NoFile}
  /\ osenv \in Environments
  /\ config \in [Registry -> Fields]
  /\ req \in [Requests -> Activities]
  /\ promised \in Contents
  /\ odd \subseteq Names
  /\ raced \in BOOLEAN /\ late \in BOOLEAN

(* Load: godotenv.Load adds the lines of .env to the environment, except   *)
(* for the variables that it already has.  Of a file that it cannot parse  *)
(* it adds nothing; the error is only logged.                              *)
LoadEnv ==
  IF Readable(dotenv)
  THEN [k \in Names |-> IF Inherited[k] # NoText THEN Inherited[k] ELSE dotenv[k]]
  ELSE Inherited

(* The names whose text the next request that rewrites the file changes.   *)
Unsteady(content) == {k \in Names : Reread(content[k]) # content[k]}

Init ==
  /\ dotenv \in Handmade
  /\ tmp = NoFile
  /\ osenv = LoadEnv
  /\ config = [k \in Registry |-> Loaded(k, osenv[k])]
  /\ req = [r \in Requests |-> Idle]
  /\ promised = dotenv
  /\ odd = Unsteady(dotenv)
  /\ raced = FALSE /\ late = FALSE

-------------------------------------------------------------------------------
(* PatchDotEnv, RemoveDotEnvKey and writeDotEnv.  Reading and merging.     *)
Read(r, edit) ==
  /\ req[r].pc = "idle"
  /\ Readable(dotenv)
  /\ edit \in Requested
  /\ req' = [req EXCEPT ![r] = [pc |-> "open", edit |-> edit, new |-> Merged(dotenv, edit),
                               at |-> "tmp"]]
  /\ raced' = (raced \/ \E q \in Requests : req[q].pc \in Rewriting)
  /\ UNCHANGED <<dotenv, tmp, osenv, config, promised, odd, late>>

(* The file cannot be read, or what is in it not be parsed.                *)
ReadFails(r) ==
  /\ Faults \/ ~Readable(dotenv)
  /\ req[r].pc = "idle"
  /\ req' = [req EXCEPT ![r] = Refused]
  /\ UNCHANGED <<dotenv, tmp, osenv, config, history>>

(* Wrong variant: .env itself is opened.                                   *)
OpenInPlace(r) ==
  /\ req[r].pc = "open"
  /\ dotenv' = Empty
  /\ req' = [req EXCEPT ![r].pc = "write", ![r].at = "env"]
  /\ UNCHANGED <<tmp, osenv, config, history>>

(* os.WriteFile creates or truncates the temporary file, whoever wrote it, *)
Open(r) ==
  /\ req[r].pc = "open"
  /\ tmp' = Empty
  /\ req' = [req EXCEPT ![r].pc = "write", ![r].at = "tmp"]
  /\ UNCHANGED <<dotenv, osenv, config, history>>

(* and writes to the file it has open, wherever that is by now.  What      *)
(* another request has written to it in between may show through.          *)
Written(old, new) ==
  IF old = Empty THEN {new} ELSE {c \in Contents : \A k \in Names : c[k] \in {old[k], new[k]}}

Write(r) ==
  /\ req[r].pc = "write"
  /\ CASE req[r].at = "tmp"  -> tmp' \in Written(tmp, Marshalled(req[r].new)) /\ UNCHANGED dotenv
       [] req[r].at = "env"  -> dotenv' \in Written(dotenv, Marshalled(req[r].new)) /\ UNCHANGED tmp
       [] req[r].at = "gone" -> UNCHANGED <<dotenv, tmp>>
  /\ req' = [req EXCEPT ![r].pc = "rename"]
  /\ UNCHANGED <<osenv, config, history>>

(* Files open as .env.tmp follow its inode.                                *)
Moved(q, there) == [req[q] EXCEPT !.at = IF @ = "tmp" THEN there
                                         ELSE IF there = "env" THEN "gone" ELSE @]

(* Values a field of that kind has a text for: those the console sends.    *)
WellTyped(kind, v) ==
  CASE kind = "toggle"   -> v[1] = "bool"
    [] kind = "number"   -> v[1] = "number" /\ v[2] % 10 = 0
    [] kind = "duration" -> v[1] = "string" /\ v[2][1] = "span"
    [] kind = "ratio"    -> v[1] = "number"
    [] kind = "text"     -> v[1] = "string" /\ v[2] # Blank

(* ... and that are read again as they were written.                       *)
Survives(k, v) ==
  \/ v = Drop
  \/ /\ k \in Registry => WellTyped(KindOf[k], v)
     /\ Reread(ValueToEnvString(v)) = ValueToEnvString(v)

Rename(r) ==
  /\ req[r].pc = "rename"
  /\ ~Mounted /\ tmp # NoFile
  /\ dotenv' = tmp
  /\ tmp' = NoFile
  /\ req' = [q \in Requests |-> IF q = r THEN Doing("apply", req[r].edit) ELSE Moved(q, "env")]
  /\ promised' = IF raced THEN tmp ELSE Marshalled(Merged(promised, req[r].edit))
  /\ odd' = IF raced THEN {}
            ELSE {k \in Names : IF req[r].edit[k] = Keep THEN k \in odd
                                ELSE ~Survives(k, req[r].edit[k])}
  /\ late' = (late \/ \E q \in Requests \ {r} : req[q].pc = "apply")
  /\ UNCHANGED <<osenv, config, raced>>

(* The target is mounted, or another request has renamed or removed the    *)
(* file: what is there under its name is removed.                          *)
RenameFails(r) ==
  /\ req[r].pc = "rename"
  /\ Mounted \/ tmp = NoFile \/ Faults
  /\ tmp' = NoFile
  /\ req' = [q \in Requests |-> IF q = r THEN Refused ELSE Moved(q, "gone")]
  /\ UNCHANGED <<dotenv, osenv, config, history>>

(* The temporary file cannot be opened, or not be written completely: it   *)
(* stays as it is.                                                         *)
OpenFails(r) ==
  /\ Faults
  /\ req[r].pc = "open"
  /\ req' = [req EXCEPT ![r] = Refused]
  /\ UNCHANGED <<dotenv, tmp, osenv, config, history>>

WriteFails(r) ==
  /\ Faults
  /\ req[r].pc = "write"
  /\ CASE req[r].at = "tmp"  -> tmp' \in {tmp, Marshalled(req[r].new)} /\ UNCHANGED dotenv
       [] req[r].at = "env"  -> dotenv' \in {dotenv, Marshalled(req[r].new)} /\ UNCHANGED tmp
       [] req[r].at = "gone" -> UNCHANGED <<dotenv, tmp>>
  /\ req' = [req EXCEPT ![r] = Refused]
  /\ UNCHANGED <<osenv, config, history>>

-------------------------------------------------------------------------------
(* The file is in place: the handlers change what is in memory, name by    *)
(* name.  An API key goes to the environment (Setenv or Unsetenv).         *)
Applied(r, k) ==
  LET rest == [req[r].edit EXCEPT ![k] = Keep]
  IN  req' = [req EXCEPT ![r] = IF Asked(rest) = {} THEN Idle ELSE Doing("apply", rest)]

ApplyKey(r, k) ==
  /\ req[r].pc = "apply"
  /\ k \in Asked(req[r].edit) \cap KeyVars
  /\ osenv' = [osenv EXCEPT ![k] = IF req[r].edit[k] = Drop THEN NoText
                                   ELSE ValueToEnvString(req[r].edit[k])]
  /\ Applied(r, k)
  /\ UNCHANGED <<dotenv, tmp, config, history>>

(* Wrong variant: the error of the conversion is ignored.                  *)
SetSettingUnchecked(r, k) ==
  LET v == req[r].edit[k] IN
  /\ req[r].pc = "apply"
  /\ k \in Asked(req[r].edit) \cap Registry
  /\ config' = [config EXCEPT ![k] = Converted(KindOf[k], v)]
  /\ osenv' = [osenv EXCEPT ![k] = Sprint(v)]
  /\ Applied(r, k)
  /\ UNCHANGED <<dotenv, tmp, history>>

(* SetSettingValue; its error is only logged.                              *)
SetSettingValue(r, k) ==
  LET v == req[r].edit[k]
      field == Converted(KindOf[k], v)
  IN
  /\ req[r].pc = "apply"
  /\ k \in Asked(req[r].edit) \cap Registry
  /\ config' = IF field = Invalid THEN config ELSE [config EXCEPT ![k] = field]
  /\ osenv' = IF field = Invalid THEN osenv ELSE [osenv EXCEPT ![k] = Sprint(v)]
  /\ Applied(r, k)
  /\ UNCHANGED <<dotenv, tmp, history>>

Reply(r) ==
  /\ req[r].pc = "refused"
  /\ req' = [req EXCEPT ![r] = Idle]
  /\ UNCHANGED <<dotenv, tmp, osenv, config, history>>

(* The process dies wherever its requests are, and starts again.           *)
Restart ==
  /\ osenv' = LoadEnv
  /\ config' = [k \in Registry |-> Loaded(k, LoadEnv[k])]
  /\ req' = [r \in Requests |-> Idle]
  /\ promised' = IF raced THEN dotenv ELSE promised
  /\ odd' = Unsteady(dotenv)
  /\ raced' = FALSE /\ late' = FALSE
  /\ UNCHANGED <<dotenv, tmp>>

RequestStep(r) ==
  \/ \E edit \in Requested : Read(r, edit)
  \/ ReadFails(r)
  \/ Open(r) \/ OpenFails(r)
  \/ Write(r) \/ WriteFails(r)
  \/ Rename(r) \/ RenameFails(r)
  \/ \E k \in Names : ApplyKey(r, k) \/ SetSettingValue(r, k)
  \/ Reply(r)

Next == (\E r \in Requests : RequestStep(r)) \/ Restart

Spec == Init /\ [][Next]_vars

-------------------------------------------------------------------------------
(* Properties *)

(* As long as no two requests rewrite .env at once, it says at every       *)
(* moment, and so after a crash anywhere, what the requests that got their *)
(* file in place asked for, as far as godotenv can write it: it is never   *)
(* half written, no earlier change is lost, and a request that is refused  *)
(* leaves no trace (dotenv.go:36-77).                                      *)
FileKeepsPromises == ~raced => dotenv = promised

(* Between requests the process runs with what a restart would give it: a  *)
(* setting is in memory what Load makes of its line, an API key is in the  *)
(* environment what its line says.  Not so for variables the process has   *)
(* inherited, for values of a wrong type and texts that godotenv does not  *)
(* read as it has written them, when requests were applied in another      *)
(* order than their files, and when .env cannot be parsed any more.        *)
RestartChangesNothing ==
  ((\A r \in Requests : req[r].pc = "idle") /\ ~raced /\ ~late /\ Readable(dotenv)) =>
    \A k \in Names \ odd : Inherited[k] = NoText =>
      /\ k \in Registry => config[k] = Loaded(k, dotenv[k])
      /\ k \in KeyVars => osenv[k] = dotenv[k]

(* Rewriting the file does not touch what nobody asks to change, though all*)
(* of it is parsed and written anew (PatchDotEnv, dotenv.go:36-56): a line *)
(* that godotenv reads as it has written it stays until a request for its  *)
(* name replaces the file, as long as no two rewrite it at once.           *)
UnaskedLinesStay ==
  [][~raced => \A k \in Names \ odd :
       \/ dotenv'[k] = dotenv[k]
       \/ \E r \in Requests : req[r].pc = "rename" /\ req[r].edit[k] # Keep]_vars

(* What the console changes persists (docker-compose.yml): a request that  *)
(* nothing is wrong with is not refused.                                   *)
ChangesPersist == \A r \in Requests : req[r].pc # "refused"
================================================================================
