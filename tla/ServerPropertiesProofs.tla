----------------------- MODULE ServerPropertiesProofs -----------------------
(***************************************************************************)
(* What writeDefaults writes is what load reads, for every value the       *)
(* settings can have, and a restart with a file nobody touched changes     *)
(* nothing: proofs about ServerProperties.                                 *)
(***************************************************************************)
EXTENDS ServerProperties, TLAPS

\* The values of ServerProperties' members (of a text, which getline reads back
\* as it was written if it is one line, nothing need be said).
Storable(cfg) ==
  /\ cfg = [k \in Keys |-> cfg[k]]
  /\ cfg["server-port"] \in 0 .. PortSpan - 1
  /\ cfg["server-portv6"] \in 0 .. PortSpan - 1
  /\ cfg["max-players"] \in 0 .. CountSpan - 1
  /\ cfg["gamemode"] \in GameModes
  /\ cfg["force-resources"] \in BOOLEAN

\* The keys in the order in which they are written.
KeyAt == <<"server-port", "server-portv6", "max-players", "server-name", "motd",
           "gamemode", "force-resources">>

-----------------------------------------------------------------------------
(* Conversions *)

\* The texts the server writes for a mode, and the ones they are equal to.
LEMMA EqualTexts ==
  ASSUME NEW s
  PROVE  /\ iequals("Survival", s) <=> s \in {"Survival", "survival"}
         /\ iequals("Creative", s) <=> s \in {"Creative", "creative"}
         /\ iequals("Adventure", s) <=> s \in {"Adventure", "adventure"}
         /\ iequals("Survival Viewer", s) <=> s \in {"Survival Viewer", "survival viewer"}
         /\ iequals("Creative Viewer", s) <=> s \in {"Creative Viewer", "creative viewer"}
         /\ iequals("Default", s) <=> s \in {"Default", "default"}
BY DEF iequals, CaseClasses

LEMMA SpellingsAre ==
  /\ DOMAIN Spellings = GameModes \ {"DEFAULT"}
  /\ Spellings["SURVIVAL"] = {"survival", "s"}
  /\ Spellings["CREATIVE"] = {"creative", "c"}
  /\ Spellings["ADVENTURE"] = {"adventure", "a"}
  /\ Spellings["SURVIVAL_VIEWER"] = {"survival_viewer", "survival viewer", "spectator", "spec"}
  /\ Spellings["CREATIVE_VIEWER"] = {"creative_viewer", "creative viewer"}
BY DEF Spellings, GameModes

\* The name of a mode is read as the mode.
LEMMA ModeIsRead ==
  ASSUME NEW mode \in GameModes
  PROVE  parseGameMode(toGameModeString(mode)) = mode
<1> DEFINE Named(text) == {m \in DOMAIN Spellings : \E s \in Spellings[m] : iequals(text, s)}
<1>1. \A text : parseGameMode(text) = IF Named(text) = {} THEN "DEFAULT"
                                      ELSE CHOOSE m \in Named(text) : TRUE
  BY DEF parseGameMode
<1>2. CASE mode = "SURVIVAL"
  <2>1. toGameModeString(mode) = "Survival"
    BY <1>2 DEF toGameModeString
  <2>2. \A s : iequals("Survival", s) <=> s \in {"Survival", "survival"}
    BY EqualTexts
  <2>3. Named("Survival") = {"SURVIVAL"}
    BY <2>2, SpellingsAre DEF GameModes
  <2> HIDE DEF Named
  <2> QED BY <1>1, <1>2, <2>1, <2>3
<1>3. CASE mode = "CREATIVE"
  <2>1. toGameModeString(mode) = "Creative"
    BY <1>3 DEF toGameModeString
  <2>2. \A s : iequals("Creative", s) <=> s \in {"Creative", "creative"}
    BY EqualTexts
  <2>3. Named("Creative") = {"CREATIVE"}
    BY <2>2, SpellingsAre DEF GameModes
  <2> HIDE DEF Named
  <2> QED BY <1>1, <1>3, <2>1, <2>3
<1>4. CASE mode = "ADVENTURE"
  <2>1. toGameModeString(mode) = "Adventure"
    BY <1>4 DEF toGameModeString
  <2>2. \A s : iequals("Adventure", s) <=> s \in {"Adventure", "adventure"}
    BY EqualTexts
  <2>3. Named("Adventure") = {"ADVENTURE"}
    BY <2>2, SpellingsAre DEF GameModes
  <2> HIDE DEF Named
  <2> QED BY <1>1, <1>4, <2>1, <2>3
<1>5. CASE mode = "SURVIVAL_VIEWER"
  <2>1. toGameModeString(mode) = "Survival Viewer"
    BY <1>5 DEF toGameModeString
  <2>2. \A s : iequals("Survival Viewer", s) <=> s \in {"Survival Viewer", "survival viewer"}
    BY EqualTexts
  <2>3. Named("Survival Viewer") = {"SURVIVAL_VIEWER"}
    BY <2>2, SpellingsAre DEF GameModes
  <2> HIDE DEF Named
  <2> QED BY <1>1, <1>5, <2>1, <2>3
<1>6. CASE mode = "CREATIVE_VIEWER"
  <2>1. toGameModeString(mode) = "Creative Viewer"
    BY <1>6 DEF toGameModeString
  <2>2. \A s : iequals("Creative Viewer", s) <=> s \in {"Creative Viewer", "creative viewer"}
    BY EqualTexts
  <2>3. Named("Creative Viewer") = {"CREATIVE_VIEWER"}
    BY <2>2, SpellingsAre DEF GameModes
  <2> HIDE DEF Named
  <2> QED BY <1>1, <1>6, <2>1, <2>3
<1>7. CASE mode = "DEFAULT"
  <2>1. toGameModeString(mode) = "Default"
    BY <1>7 DEF toGameModeString
  <2>2. \A s : iequals("Default", s) <=> s \in {"Default", "default"}
    BY EqualTexts
  <2>3. Named("Default") = {}
    BY <2>2, SpellingsAre DEF GameModes
  <2> HIDE DEF Named
  <2> QED BY <1>1, <1>7, <2>1, <2>3
<1> QED BY <1>2, <1>3, <1>4, <1>5, <1>6, <1>7 DEF GameModes

-----------------------------------------------------------------------------
(* Writing and reading *)

LEMMA Spans ==
  /\ PortSpan \in Nat /\ IntSpan \in Nat /\ CountSpan \in Nat /\ LongSpan \in Nat
  /\ 19133 < PortSpan /\ PortSpan <= IntSpan
  /\ IntSpan <= CountSpan /\ CountSpan <= LongSpan
BY SpanAssumption

LEMMA KeysAre ==
  /\ DOMAIN KeyAt = 1 .. 7
  /\ \A i \in 1 .. 7 : KeyAt[i] \in Keys
  /\ \A k \in Keys : \E i \in 1 .. 7 : KeyAt[i] = k
  /\ \A i, j \in 1 .. 7 : KeyAt[i] = KeyAt[j] => i = j
<1>1. DOMAIN KeyAt = 1 .. 7
  BY DEF KeyAt
<1>2. /\ KeyAt[1] = "server-port" /\ KeyAt[2] = "server-portv6" /\ KeyAt[3] = "max-players"
      /\ KeyAt[4] = "server-name" /\ KeyAt[5] = "motd" /\ KeyAt[6] = "gamemode"
      /\ KeyAt[7] = "force-resources"
  BY DEF KeyAt
<1>3. \A i \in 1 .. 7 : i = 1 \/ i = 2 \/ i = 3 \/ i = 4 \/ i = 5 \/ i = 6 \/ i = 7
  OBVIOUS
<1>4. Keys = {"server-port", "server-portv6", "max-players", "server-name", "motd",
              "gamemode", "force-resources"}
  BY DEF Keys, PortKeys, TextKeys
<1>5. \A i, j \in 1 .. 7 : KeyAt[i] = KeyAt[j] => i = j
  BY <1>2, <1>3
<1>6. \A i \in 1 .. 7 : KeyAt[i] \in Keys
  BY <1>2, <1>3, <1>4
<1>7. \A k \in Keys : \E i \in 1 .. 7 : KeyAt[i] = k
  BY <1>2, <1>4
<1> QED BY <1>1, <1>5, <1>6, <1>7

\* One line per key, in order, and no line makes load throw.
LEMMA LinesAre ==
  ASSUME NEW cfg, Storable(cfg)
  PROVE  LET W == WrittenLines(cfg)
         IN  /\ DOMAIN W = 1 .. 7
             /\ \A i \in 1 .. 7 : /\ W[i].key = KeyAt[i]
                                  /\ ~Throws(W[i])
                                  /\ Assigned(W[i]) = cfg[KeyAt[i]]
<1> DEFINE W == WrittenLines(cfg)
<1>1. DOMAIN W = 1 .. 7
  BY DEF WrittenLines
<1>2. /\ KeyAt[1] = "server-port" /\ KeyAt[2] = "server-portv6" /\ KeyAt[3] = "max-players"
      /\ KeyAt[4] = "server-name" /\ KeyAt[5] = "motd" /\ KeyAt[6] = "gamemode"
      /\ KeyAt[7] = "force-resources"
  BY DEF KeyAt
<1>3. /\ W[1].key = "server-port" /\ W[1].value.digits = {cfg["server-port"]}
      /\ W[2].key = "server-portv6" /\ W[2].value.digits = {cfg["server-portv6"]}
      /\ W[3].key = "max-players" /\ W[3].value.digits = {cfg["max-players"]}
      /\ W[4].key = "server-name" /\ W[4].value.text = cfg["server-name"]
      /\ W[5].key = "motd" /\ W[5].value.text = cfg["motd"]
  BY DEF WrittenLines, Line, Value
<1>4. /\ W[6].key = "gamemode" /\ W[6].value.text = toGameModeString(cfg["gamemode"])
      /\ W[7].key = "force-resources"
      /\ W[7].value.text = IF cfg["force-resources"] THEN "1" ELSE "0"
  BY DEF WrittenLines, Line, Value
<1> HIDE DEF W
<1>5. ASSUME NEW i \in {1, 2}
      PROVE  W[i].key = KeyAt[i] /\ ~Throws(W[i]) /\ Assigned(W[i]) = cfg[KeyAt[i]]
  <2>1. PICK n \in 0 .. PortSpan - 1 : cfg[KeyAt[i]] = n
    <3>1. i = 1 \/ i = 2
      OBVIOUS
    <3> QED BY <1>2, <3>1 DEF Storable
  <2>2. W[i].key = KeyAt[i] /\ KeyAt[i] \in PortKeys /\ KeyAt[i] # "max-players"
        /\ W[i].value.digits = {n}
    BY <1>2, <1>3, <2>1 DEF PortKeys
  <2>3. n \in -IntSpan .. IntSpan - 1 /\ n % PortSpan = n
    BY <2>1, Spans
  <2>4. Number(W[i].value) = n
    BY <2>2 DEF Number
  <2>5. ~Throws(W[i])
    BY <2>2, <2>3 DEF Throws
  <2>6. Assigned(W[i]) = Number(W[i].value) % PortSpan
    <3>1. /\ W[i].key \in PortKeys /\ W[i].key \notin TextKeys /\ W[i].key # "max-players"
          /\ W[i].key # "gamemode" /\ W[i].key # "force-resources"
      BY <2>2 DEF PortKeys, TextKeys
    <3> QED BY <3>1 DEF Assigned
  <2> QED BY <2>1, <2>2, <2>3, <2>4, <2>5, <2>6
<1>6. W[3].key = KeyAt[3] /\ ~Throws(W[3]) /\ Assigned(W[3]) = cfg[KeyAt[3]]
  <2>1. PICK n \in 0 .. CountSpan - 1 : cfg["max-players"] = n
    BY DEF Storable
  <2>2. W[3].key = "max-players" /\ KeyAt[3] = "max-players" /\ W[3].value.digits = {n}
    BY <1>2, <1>3, <2>1
  <2>3. n \in 1 - LongSpan .. LongSpan - 1 /\ n % CountSpan = n
    BY <2>1, Spans
  <2>4. Number(W[3].value) = n
    BY <2>2 DEF Number
  <2>5. ~Throws(W[3])
    BY <2>2, <2>3 DEF Throws, PortKeys
  <2>6. Assigned(W[3]) = Number(W[3].value) % CountSpan
    <3>1. W[3].key \notin PortKeys /\ W[3].key \notin TextKeys
      BY <2>2 DEF PortKeys, TextKeys
    <3> QED BY <2>2, <3>1 DEF Assigned
  <2> QED BY <2>1, <2>2, <2>3, <2>4, <2>5, <2>6
<1>7. ASSUME NEW i \in {4, 5}
      PROVE  W[i].key = KeyAt[i] /\ ~Throws(W[i]) /\ Assigned(W[i]) = cfg[KeyAt[i]]
  <2>1. W[i].key = KeyAt[i] /\ KeyAt[i] \in TextKeys /\ W[i].value.text = cfg[KeyAt[i]]
    BY <1>2, <1>3 DEF TextKeys
  <2>2. KeyAt[i] \notin PortKeys /\ KeyAt[i] # "max-players"
    BY <2>1 DEF TextKeys, PortKeys
  <2>3. ~Throws(W[i])
    BY <2>1, <2>2 DEF Throws
  <2>4. Assigned(W[i]) = W[i].value.text
    <3>1. W[i].key # "gamemode" /\ W[i].key # "force-resources"
      BY <2>1 DEF TextKeys
    <3> QED BY <2>1, <2>2, <3>1 DEF Assigned
  <2> QED BY <2>1, <2>3, <2>4
<1>8. W[6].key = KeyAt[6] /\ ~Throws(W[6]) /\ Assigned(W[6]) = cfg[KeyAt[6]]
  <2>1. parseGameMode(toGameModeString(cfg["gamemode"])) = cfg["gamemode"]
    BY ModeIsRead DEF Storable
  <2> QED BY <1>2, <1>4, <2>1 DEF Throws, Assigned, PortKeys, TextKeys
<1>9. W[7].key = KeyAt[7] /\ ~Throws(W[7]) /\ Assigned(W[7]) = cfg[KeyAt[7]]
  <2>1. W[7].key = "force-resources" /\ KeyAt[7] = "force-resources"
    BY <1>2, <1>4
  <2>2. ~Throws(W[7])
    BY <2>1 DEF Throws, PortKeys
  <2>3. Assigned(W[7]) = (W[7].value.text \in {"1", "true", "yes"})
    BY <2>1 DEF Assigned, PortKeys, TextKeys
  <2>4. CASE cfg["force-resources"] = TRUE
    <3>1. W[7].value.text = "1"
      BY <1>4, <2>4
    <3>2. Assigned(W[7]) = TRUE
      BY <2>3, <3>1
    <3> QED BY <2>1, <2>2, <2>4, <3>2
  <2>5. CASE cfg["force-resources"] = FALSE
    <3>1. W[7].value.text = "0"
      BY <1>4, <2>5
    <3>2. Assigned(W[7]) = FALSE
      <4>1. ("0" \in {"1", "true", "yes"}) = FALSE
        OBVIOUS
      <4> QED BY <2>3, <3>1, <4>1, Zenon
    <3> QED BY <2>1, <2>2, <2>5, <3>2
  <2> QED BY <2>4, <2>5 DEF Storable
<1>10. ASSUME NEW i \in 1 .. 7
      PROVE  W[i].key = KeyAt[i] /\ ~Throws(W[i]) /\ Assigned(W[i]) = cfg[KeyAt[i]]
  <2>1. i \in {1, 2} \/ i = 3 \/ i \in {4, 5} \/ i = 6 \/ i = 7
    OBVIOUS
  <2> QED BY <1>5, <1>6, <1>7, <1>8, <1>9, <2>1, Zenon
<1> QED BY <1>1, <1>10 DEF W

\* load undoes writeDefaults: whatever the settings are, the file says the same
\* and reading it does not throw.
THEOREM WrittenIsRead ==
  ASSUME NEW cfg, Storable(cfg)
  PROVE  /\ Loaded(WrittenLines(cfg)) = cfg
         /\ \A i \in DOMAIN WrittenLines(cfg) : ~Throws(WrittenLines(cfg)[i])
<1> DEFINE W == WrittenLines(cfg)
<1>1. /\ DOMAIN W = 1 .. 7
      /\ \A i \in 1 .. 7 : /\ W[i].key = KeyAt[i]
                           /\ ~Throws(W[i])
                           /\ Assigned(W[i]) = cfg[KeyAt[i]]
  BY LinesAre
<1> HIDE DEF W
<1>2. ASSUME NEW k \in Keys
      PROVE  Naming(W, k) # {} /\ Assigned(W[Greatest(Naming(W, k))]) = cfg[k]
  <2>1. PICK i \in 1 .. 7 : KeyAt[i] = k
    BY KeysAre
  <2>2. Naming(W, k) = {i}
    BY <1>1, <2>1, KeysAre DEF Naming
  <2>3. Greatest({i}) = i
    BY DEF Greatest
  <2> QED BY <1>1, <2>1, <2>2, <2>3
<1>3. Loaded(W) = [k \in Keys |-> cfg[k]]
  BY <1>2 DEF Loaded
<1> QED BY <1>1, <1>3 DEF Storable, W

LEMMA DefaultsAre == Storable(defaults)
<1>1. /\ Default("server-port") = 19132 /\ Default("server-portv6") = 19133
      /\ Default("max-players") = 100
  BY DEF Default
<1>2. Default("gamemode") \in GameModes
  BY DEF Default, GameModes
<1>3. defaults["force-resources"] = FALSE
  BY DEF defaults, Default, Keys, PortKeys, TextKeys
<1>4. \A k \in Keys : defaults[k] = Default(k)
  BY DEF defaults
<1>5. 19132 \in 0 .. PortSpan - 1 /\ 19133 \in 0 .. PortSpan - 1 /\ 100 \in 0 .. CountSpan - 1
  BY Spans
<1>6. /\ defaults["server-port"] \in 0 .. PortSpan - 1
      /\ defaults["server-portv6"] \in 0 .. PortSpan - 1
      /\ defaults["max-players"] \in 0 .. CountSpan - 1
      /\ defaults["gamemode"] \in GameModes
  BY <1>1, <1>2, <1>4, <1>5 DEF Keys, PortKeys
<1>7. defaults["force-resources"] \in BOOLEAN
  BY <1>3, Zenon
<1>8. defaults = [k \in Keys |-> defaults[k]]
  BY DEF defaults
<1> QED BY <1>6, <1>7, <1>8, Zenon DEF Storable

LEMMA EmptyIsRead == Loaded(<<>>) = defaults
<1>1. \A k : Naming(<<>>, k) = {}
  BY DEF Naming
<1>2. Loaded(<<>>) = [k \in Keys |-> defaults[k]]
  BY <1>1 DEF Loaded
<1> QED BY <1>2, DefaultsAre DEF Storable

-----------------------------------------------------------------------------
(* Restarts *)

\* What the next start finds in the file.
Outcome ==
  IF ~exists THEN {defaults}
  ELSE IF openable /\ \E i \in DOMAIN lines : Throws(lines[i]) THEN {}
  ELSE {LoadedSettings}

\* As long as nobody touches the file the next start finds what the last one
\* returned; a start that is about to write found no file, or truncated it.
Settled ==
  untouched =>
    /\ settings = Outcome
    /\ pc = "creating" => ~exists
    /\ pc = "writing" => exists /\ lines = <<>>

LEMMA EmptyOutcome ==
  ASSUME exists, lines = <<>>
  PROVE  Outcome = {defaults}
BY EmptyIsRead DEF Outcome, LoadedSettings

LEMMA WrittenOutcome ==
  ASSUME exists', lines' = WrittenLines(defaults)
  PROVE  Outcome' = {defaults}
BY WrittenIsRead, DefaultsAre DEF Outcome, LoadedSettings

LEMMA SettledStep == Settled /\ [Next]_vars => Settled'
<1> SUFFICES ASSUME Settled, [Next]_vars
             PROVE  Settled'
  OBVIOUS
<1> USE DEF file
<1>1. CASE LoadExisting
  BY <1>1 DEF LoadExisting, Settled, Outcome, LoadedSettings
<1>2. CASE FailLoad
  BY <1>2 DEF FailLoad, Settled, Outcome, LoadedSettings
<1>3. CASE FindNothing
  BY <1>3 DEF FindNothing, Settled, Outcome, LoadedSettings
<1>4. CASE OpenForWriting
  <2>1. Outcome' = {defaults}
    BY <1>4, EmptyIsRead DEF OpenForWriting, Outcome, LoadedSettings
  <2> QED BY <1>4, <2>1 DEF OpenForWriting, Settled
<1>5. CASE WriteNothing
  BY <1>5 DEF WriteNothing, Settled, Outcome, LoadedSettings
<1>6. CASE CloseWritten
  <2> SUFFICES ASSUME untouched'
               PROVE  settings' = Outcome' /\ pc' = "up"
    BY <1>6 DEF CloseWritten, Settled
  <2>1. exists' /\ exists /\ lines = <<>> /\ settings = Outcome /\ settings' = settings
    BY <1>6 DEF CloseWritten, Settled
  <2>2. settings = {defaults}
    BY <2>1, EmptyOutcome
  <2>3. Outcome' = {defaults}
    BY <1>6, <2>1, WrittenOutcome DEF CloseWritten
  <2> QED BY <1>6, <2>1, <2>2, <2>3 DEF CloseWritten
<1>7. CASE End
  BY <1>7 DEF End, Settled, Outcome, LoadedSettings
<1>8. CASE (\E line \in Edits : AddLine(line)) \/ RemoveFile \/ ChangeAccess
  BY <1>8 DEF AddLine, RemoveFile, ChangeAccess, Settled
<1>9. CASE UNCHANGED vars
  BY <1>9 DEF vars, Settled, Outcome, LoadedSettings
<1> QED BY <1>1, <1>2, <1>3, <1>4, <1>5, <1>6, <1>7, <1>8, <1>9 DEF Next

\* SettingsSurviveRestart of ServerProperties: whatever was edited before, and
\* however often the process died, a start with a file nobody touched since the
\* last one returns the same settings or throws again.
THEOREM RestartKeepsSettings == Spec => SettingsSurviveRestart
<1>1. Init => Settled
  BY DEF Init, Settled
<1>2. Settled /\ [Next]_vars => (untouched => settings' = settings)
  <2> SUFFICES ASSUME Settled, [Next]_vars, untouched
               PROVE  settings' = settings
    OBVIOUS
  <2>1. settings = Outcome
    BY DEF Settled
  <2>2. CASE LoadExisting
    BY <2>1, <2>2 DEF LoadExisting, Outcome
  <2>3. CASE FailLoad
    BY <2>1, <2>3 DEF FailLoad, Outcome
  <2>4. CASE OpenForWriting \/ WriteNothing
    BY <2>1, <2>4 DEF OpenForWriting, WriteNothing, Settled, Outcome
  <2>5. CASE FindNothing \/ CloseWritten \/ End \/ UNCHANGED vars
    BY <2>5 DEF FindNothing, CloseWritten, End, vars
  <2>6. CASE (\E line \in Edits : AddLine(line)) \/ RemoveFile \/ ChangeAccess
    BY <2>6 DEF AddLine, RemoveFile, ChangeAccess
  <2> QED BY <2>2, <2>3, <2>4, <2>5, <2>6 DEF Next
<1> QED BY <1>1, <1>2, SettledStep, PTL DEF Spec, SettingsSurviveRestart
=============================================================================
