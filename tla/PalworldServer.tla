---------------------------- MODULE PalworldServer ----------------------------
(***************************************************************************)
(* One pod of the Palworld server: start.sh and configure.py, which        *)
(* rewrites the game's settings file on the persistent volume at every     *)
(* start.  It reads the file, or the image's template if there is none,    *)
(* puts in the options of the ConfigMap and the password of the Secret,    *)
(* and writes the result over the file.  A container may be killed         *)
(* anywhere; it starts again on the same volume.                           *)
(*                                                                         *)
(* A settings file, like the dict configure() makes of it, has options in  *)
(* an order and a value for each.  Of a value the model tells apart, next  *)
(* to its text, what the parsers react to: nest, its opening parentheses   *)
(* less its closing ones, since parse_option_settings splits only at       *)
(* commas where all parentheses so far have matched; and percent signs,    *)
(* which configparser reads when doubled and refuses when bare.  A comma   *)
(* of a value's own is left out: it cuts that value short or makes junk    *)
(* entries of a list behind an unmatched ")", and sets another option only *)
(* with an "=" behind it.  Server and admin password are handled alike;    *)
(* there is one here.                                                      *)
(*                                                                         *)
(* OlderFirst, NewOnly, LastDropped and OpensFirst are faulty variants of  *)
(* the definitions that follow them.                                       *)
(***************************************************************************)
EXTENDS Integers, FiniteSets, Sequences, SequencesExt

CONSTANTS Template,   \* DefaultPalWorldSettings.ini
          Password,   \* the option that holds the password
          Configs,    \* what the ConfigMap says at one time or another
          Passwords,  \* what the Secret says
          Merged,     \* the text of a value that took in other options
          MaxNest,    \* bound: unmatched parentheses gathered in one value
          MaxEdits    \* bound: changes of ConfigMap and Secret

Options == (DOMAIN Template.value) \cup UNION {DOMAIN c : c \in Configs}

Given(f) == {f[k] : k \in DOMAIN f}

AnyGiven == Given(Template.value) \cup Passwords \cup UNION {Given(c) : c \in Configs}

Texts == {v.text : v \in AnyGiven}

PercentSigns == {"none", "doubled", "bare"}

Value == [text : Texts \cup {Merged}, nest : Int, percent : PercentSigns]

(* A dictionary lists the options it has values of. *)
Listed(dict) ==
  /\ dict.order \in Seq(DOMAIN dict.value)
  /\ \A k \in DOMAIN dict.value : \E i \in DOMAIN dict.order : dict.order[i] = k

(* Anybody's text may be in ConfigMap and Secret; the template is the game's. *)
ASSUME PalworldAssumption ==
  /\ AnyGiven \subseteq [text : Texts, nest : Int, percent : PercentSigns]
  /\ \A c \in Configs : IsFiniteSet(DOMAIN c)
  /\ Listed(Template)
  /\ Password \in DOMAIN Template.value
  /\ \A v \in Given(Template.value) : v.nest = 0 /\ v.percent = "none"
  /\ {MaxNest, MaxEdits} \subseteq Nat

VARIABLES there,      \* on the volume: PalWorldSettings.ini exists
          ini,        \* what is in it
          config,     \* in the cluster: the ConfigMap
          secret,     \* in the cluster: the Secret
          edits,      \* how often either has been changed
          pc,         \* what start.sh and configure.py do next
          configmap_data,   \* locals of configure()
          options_dict,
          server_password,
          cut,        \* history: a container ended between open and write
          unmatched   \* history: a start read a file in which an unmatched
                      \* parenthesis is in front of another option

volume == <<there, ini>>
cluster == <<config, secret, edits>>
locals == <<configmap_data, options_dict, server_password>>
vars == <<volume, cluster, pc, locals, cut, unmatched>>

(* No options: an emptied file. *)
NoValues == [k \in {} |-> Password]
Nothing == [order |-> <<>>, value |-> NoValues]

Init ==
  /\ there = FALSE
  /\ ini = Nothing
  /\ config \in Configs
  /\ secret \in Passwords
  /\ edits = 0
  /\ pc = "read"
  /\ configmap_data = NoValues
  /\ options_dict = Nothing
  /\ server_password = Template.value[Password]
  /\ cut = FALSE
  /\ unmatched = FALSE
-------------------------------------------------------------------------------
(* options_dict[key] = new[key], for all keys of new: a dict keeps the place *)
(* of an old key and appends the others, added, in the order they come.      *)
OlderFirst(old, new, added) ==
  [order |-> old.order \o added,
   value |-> [k \in DOMAIN old.value \cup DOMAIN new |->
                IF k \in DOMAIN old.value THEN old.value[k] ELSE new[k]]]

NewOnly(old, new, added) == [order |-> added, value |-> new]

Updated(old, new, added) ==
  [order |-> old.order \o added,
   value |-> [k \in DOMAIN old.value \cup DOMAIN new |->
                IF k \in DOMAIN new THEN new[k] ELSE old.value[k]]]

Added(old, new) == SetToSeqs(DOMAIN new \ DOMAIN old.value)

(* configparser: an emptied file has no section, a bare percent sign is an   *)
(* interpolation error, and a doubled one is handed on as a bare one.        *)
Readable(file) == file # Nothing /\ \A v \in Given(file.value) : v.percent # "bare"

Interpolated(v) == IF v.percent = "doubled" THEN [v EXCEPT !.percent = "bare"] ELSE v

(* The value of an option that the next one was not split from. *)
Joined(v, next) ==
  [text |-> Merged,
   nest |-> v.nest + next.nest,
   percent |-> IF v.percent = "bare" THEN "bare" ELSE Interpolated(next).percent]

(* One option of parse_option_settings: the comma in front of it splits at   *)
(* depth 0 only; else it becomes part of the last value.                     *)
Split(parsed, k, v) ==
  [dict |-> IF parsed.depth = 0
              THEN Updated(parsed.dict, [o \in {k} |-> Interpolated(v)], <<k>>)
              ELSE [order |-> parsed.dict.order,
                    value |-> [parsed.dict.value EXCEPT
                                 ![Last(parsed.dict.order)] = Joined(@, v)]],
   depth |-> parsed.depth + v.nest]

ParsedTo(file, n) ==
  LET parsed[i \in 0..n] ==
        IF i = 0 THEN [dict |-> Nothing, depth |-> 0]
                 ELSE Split(parsed[i - 1], file.order[i], file.value[file.order[i]])
  IN  parsed[n].dict

LastDropped(file) == ParsedTo(file, Len(file.order) - 1)

Parsed(file) == ParsedTo(file, Len(file.order))

Unmatched(file) ==
  \E i \in 1..(Len(file.order) - 1) : file.value[file.order[i]].nest # 0

(* The container ends, and start.sh begins anew. *)
Restarts ==
  /\ pc' = "read"
  /\ configmap_data' = NoValues
  /\ options_dict' = Nothing
  /\ server_password' = Template.value[Password]

Current == IF there THEN ini ELSE Template

(* An empty ConfigMap is None to Python, which has no keys(). *)
Accepted == Readable(Current) /\ config # NoValues

Read ==
  /\ pc = "read"
  /\ IF Accepted
       THEN /\ \A v \in Given(Parsed(Current).value) : v.nest \in -MaxNest..MaxNest
            /\ configmap_data' = config
            /\ \E added \in Added(Parsed(Current), config) :
                 options_dict' = Updated(Parsed(Current), config, added)
            /\ unmatched' = (unmatched \/ Unmatched(Current))
            /\ pc' = "secret"
            /\ UNCHANGED server_password
       ELSE Restarts /\ UNCHANGED unmatched
  /\ UNCHANGED <<volume, cluster, cut>>

(* open(..., 'w') empties the file. *)
OpensFirst == there' = TRUE /\ ini' = Nothing

LeavesFile == UNCHANGED volume

WithPassword(p) == [k \in {Password} |-> p]

ReadSecret ==
  /\ pc = "secret"
  /\ server_password' = secret
  /\ \E added \in Added(options_dict, WithPassword(secret)) :
       options_dict' = Updated(options_dict, WithPassword(secret), added)
  /\ pc' = "open"
  /\ LeavesFile
  /\ UNCHANGED <<cluster, configmap_data, cut, unmatched>>

(* The API does not answer or refuses. *)
SecretFails ==
  /\ pc = "secret"
  /\ Restarts
  /\ LeavesFile
  /\ UNCHANGED <<cluster, cut, unmatched>>

Open ==
  /\ pc = "open"
  /\ there' = TRUE
  /\ ini' = Nothing
  /\ pc' = "write"
  /\ UNCHANGED <<cluster, locals, cut, unmatched>>

Write ==
  /\ pc = "write"
  /\ ini' = options_dict
  /\ pc' = "run"
  /\ UNCHANGED <<there, cluster, locals, cut, unmatched>>

(* A kill, a full disk, or the end of the game. *)
Crash ==
  /\ Restarts
  /\ cut' = (cut \/ pc = "write")
  /\ UNCHANGED <<volume, cluster, unmatched>>

Edit ==
  /\ edits < MaxEdits
  /\ edits' = edits + 1
  /\ \/ config' \in Configs /\ UNCHANGED secret
     \/ secret' \in Passwords /\ UNCHANGED config
  /\ UNCHANGED <<volume, pc, locals, cut, unmatched>>

Next ==
  Read \/ ReadSecret \/ SecretFails \/ Open \/ Write \/ Crash \/ Edit

Spec == Init /\ [][Next]_vars
-------------------------------------------------------------------------------
(* Known options with known texts, all of them in the order. *)
Dict(dict) ==
  /\ Listed(dict)
  /\ DOMAIN dict.value \subseteq Options
  /\ Given(dict.value) \subseteq Value

TypeOK ==
  /\ there \in BOOLEAN
  /\ config \in Configs
  /\ secret \in Passwords
  /\ edits \in 0 .. MaxEdits
  /\ pc \in {"read", "secret", "open", "write", "run"}
  /\ configmap_data \in Configs \cup {NoValues}
  /\ Dict(ini) /\ Dict(options_dict)
  /\ server_password \in Passwords \cup {Template.value[Password]}
  /\ cut \in BOOLEAN
  /\ unmatched \in BOOLEAN

(* The game starts with what this start has read: every option of the        *)
(* ConfigMap and the password of the Secret, whatever older starts left in   *)
(* the file and wherever they were cut off.                                  *)
SettingsRight ==
  pc = "run" =>
    /\ Password \in DOMAIN ini.value /\ ini.value[Password] = server_password
    /\ \A k \in DOMAIN configmap_data \ {Password} :
         k \in DOMAIN ini.value /\ ini.value[k] = configmap_data[k]

(* No number of rewrites loses an option of the template, and those that no  *)
(* ConfigMap sets keep the template's value, up to the first start that      *)
(* reads a file in which an unmatched parenthesis, of either kind and in any *)
(* value, is in front of another option.                                     *)
OptionsKept ==
  pc = "run" /\ ~unmatched =>
    \A k \in DOMAIN Template.value \ {Password} :
      /\ k \in DOMAIN ini.value
      /\ (\A c \in Configs : k \notin DOMAIN c) => ini.value[k] = Template.value[k]

(* A start that fails destroys nothing: the file is without its settings,    *)
(* which makes every later start fail, only after a container ended in the   *)
(* moment between opening and writing it.                                    *)
FileSurvives == there /\ pc # "write" /\ ini = Nothing => cut

===============================================================================
