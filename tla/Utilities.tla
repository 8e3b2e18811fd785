----------------------------- MODULE Utilities ------------------------------
(***************************************************************************)
(* The utilities of the library.  They have nothing to do with each other, *)
(* so each behaviour is one of a single module's: "part" says of which,    *)
(* and the variables of the others are None.                               *)
(***************************************************************************)
EXTENDS Integers, FiniteSets, Sequences

CONSTANTS
    None, Empty, Torn, Token,
    Names, Strings, \* Settings
    Threads, \* those that call PersistedJson, SystemModeFile, IarmInit and DirectLink
    JsonKeys, JsonValues,
    Content, Other,
    ModesAsked, States, Callsigns, MaxLines, MaxLetters,
    Trees, Patterns, Exclusions, MaxFound,
    Properties, Contents, Texts,
    Words, Pieces, Images,
    Events, Handlers, MaxCalls,
    Retries, MaxCrashes,
    Workers, Clients, MaxNested,
    Calls,
    TokenCallers, SecurityTokens,
    Refs, RetryCounts, MaxLeaks,
    Currents, MaxUint8, Methods, MaxNoted

\* The threads and what they use are finite sets, and "None" is none of the values it stands beside.
ASSUME ThreadsAssumption ==
    /\ IsFiniteSet(Threads) /\ IsFiniteSet(Workers) /\ IsFiniteSet(Clients)
    /\ None \notin Workers \cup Clients \cup TokenCallers \cup Handlers
    /\ None \notin {"token", "no agent", "failed"}
    /\ None \notin [token : {Token, Empty, Torn}, failed : BOOLEAN, has : BOOLEAN, mId : Nat]

\* The builder's retry counts are numbers, and a null interface is not a missing variable.
ASSUME ReferencesAssumption ==
    /\ IsFiniteSet(Refs)
    /\ RetryCounts \subseteq Int
    /\ None \notin BOOLEAN /\ None \notin RetryCounts

\* A file is a sequence of chunks, which no number, other file or result is mistaken for.
ASSUME FilesAssumption ==
    /\ Content \in Seq({Content[i] : i \in DOMAIN Content})
    /\ None \notin Nat /\ None # Content /\ None # Other /\ None # FALSE

\* A key is one string without a "=", a value one or more.
ASSUME SettingsAssumption ==
    /\ \A k \in Names : k \in Seq(STRING) /\ Len(k) = 1
    /\ \A v \in Strings : v \in Seq(STRING) /\ v # <<>>

\* No file is not a file of such lines.
ASSUME NoFileAssumption == \A X \in SUBSET {k \o v : k \in Names, v \in Strings} : X # None

\* A property is one token, and none of those that end a name; a value that refers is a property.
ASSUME PropertiesAssumption ==
    /\ Properties \subseteq STRING \ {"$", "/", " "}
    /\ Texts \subseteq Seq(STRING)
    /\ \A lns \in Contents :
          /\ lns \in Seq([name : STRING, refers : BOOLEAN, value : STRING])
          /\ \A i \in DOMAIN lns : lns[i].refers => lns[i].value \in Properties

\* A path has a name; a directory is listed in the one above it, and lists no name twice.
ASSUME PathsAssumption ==
    /\ MaxFound \in Nat \ {0}
    /\ Patterns \subseteq Seq(Seq(STRING)) \ {<<>>}
    /\ \A t \in Trees : \A d \in DOMAIN t :
          /\ d \in Seq(Seq(STRING)) /\ t[d] \in Seq(Seq(STRING))
          /\ \A i, j \in DOMAIN t[d] : t[d][i] = t[d][j] => i = j
          /\ \A i \in DOMAIN d : LET above == SubSeq(d, 1, i - 1)
                                IN  above \in DOMAIN t /\ \E j \in DOMAIN t[above] : t[above][j] = d[i]

\* Strings are sequences of letters, images of bytes.
ASSUME StringsAssumption ==
    Words \subseteq Seq(STRING) /\ Pieces \subseteq Seq(STRING) /\ Images \subseteq Seq(0..255)

\* m_currVersion is a uint8_t, and the constructor's loop ends.
ASSUME VersionsAssumption == MaxUint8 \in Nat \ {0} /\ Currents \subseteq 0..(MaxUint8 - 1)

Parts == {"settings", "persisted", "move", "mode", "search", "property", "strings", "timer", "handlers",
          "iarm", "pool", "link", "token", "reference", "versions"}

VARIABLES
    part, \* the module whose system this behaviour is one of
    settings, lines, unwritten, alive, kept, lost,
    cached, durable, at, cecSetting, linked, before, cut,
    from, to, checked, done, result, found, misread, undestroyed,
    modeFile, stage, buffer, lone,
    tree, pattern,
    content, text,
    word, old, new, image,
    due, active, singleShot, timed, doing, met,
    handlerOf, onBus, entering, called, removed, late, busFailed,
    bus, daemon, crashes, trying, retryCount, initResult, upSince,
    jobs, runs, step, nested, waiting, event, outcome,
    sThunderSecurityToken, acquired, agent, getting, tried, link, dispatcher, firstAnswer,
    overlapped,
    sToken, sThunderSecurityChecked, mtx, asks, created, gotten,
    interface, references, plugin, retries, count, made, seen, overwritten,
    currVersion, handlers, registered, versionAPIs, loop, ended, unknown, repeated

settingsVars == <<settings, lines, unwritten, alive, kept, lost>>
persistedVars == <<cached, durable, at, cecSetting, linked, before, cut>>
moveVars == <<from, to, checked, done, result, found, misread, undestroyed>>
modeVars == <<modeFile, stage, buffer, lone>>
searchVars == <<tree, pattern>>
propertyVars == <<content, text>>
stringsVars == <<word, old, new, image>>
timerVars == <<due, active, singleShot, timed, doing, met>>
handlersVars == <<handlerOf, onBus, entering, called, removed, late, busFailed>>
iarmVars == <<bus, daemon, crashes, trying, retryCount, initResult, upSince>>
poolVars == <<jobs, runs, step, nested, waiting, event, outcome>>
linkVars ==
    <<sThunderSecurityToken, acquired, agent, getting, tried, link, dispatcher, firstAnswer, overlapped>>
tokenVars == <<sToken, sThunderSecurityChecked, mtx, asks, created, gotten>>
referenceVars == <<interface, references, plugin, retries, count, made, seen, overwritten>>
versionsVars == <<currVersion, handlers, registered, versionAPIs, loop, ended, unknown, repeated>>

vars == <<part, settingsVars, persistedVars, moveVars, modeVars, searchVars, propertyVars, stringsVars,
          timerVars, handlersVars, iarmVars, poolVars, linkVars, tokenVars, referenceVars, versionsVars>>

S == INSTANCE Settings WITH Keys <- Names, Values <- Strings
PJ == INSTANCE PersistedJson WITH Callers <- Threads, Keys <- JsonKeys, Values <- JsonValues
MF == INSTANCE MoveFile
SM == INSTANCE SystemModeFile WITH Callers <- Threads
FS == INSTANCE FileSearch
PF == INSTANCE PropertyFile
St == INSTANCE Strings WITH Parts <- Pieces
T == INSTANCE TpTimer
H == INSTANCE IarmHandlers
I == INSTANCE IarmInit WITH Initers <- Threads
W == INSTANCE WorkerPool
L == INSTANCE DirectLink WITH Askers <- Threads
Tk == INSTANCE SecurityToken
R == INSTANCE InterfaceRef
V == INSTANCE PluginVersions

\* The provers do not know this of the strings that the modules spell out.
ASSUME EmptyString == "" \in STRING
ASSUME SpelledOut == "VIDEO" \in STRING /\ SM!Delimiter \in STRING

\* States and callsigns are strings of letters, a callsign at least one and never the delimiter.
ASSUME ModesAssumption ==
    /\ None \notin Seq(STRING)
    /\ States \subseteq Seq(STRING)
    /\ \A x \in Callsigns : x \in Seq(STRING) /\ x # <<>> /\ \A i \in DOMAIN x : x[i] # SM!Delimiter

Init ==
    /\ part \in Parts
    /\ IF part = "settings" THEN S!Init
       ELSE settings = None /\ lines = None /\ unwritten = None /\ alive = None
            /\ kept = None /\ lost = None
    /\ IF part = "persisted" THEN PJ!Init
       ELSE cached = None /\ durable = None /\ at = None /\ cecSetting = None /\ linked = None
            /\ before = None /\ cut = None
    /\ IF part = "move" THEN MF!Init
       ELSE from = None /\ to = None /\ checked = None /\ done = None /\ result = None
            /\ found = None /\ misread = None /\ undestroyed = None
    /\ IF part = "mode" THEN SM!Init
       ELSE modeFile = None /\ stage = None /\ buffer = None /\ lone = None
    /\ IF part = "search" THEN FS!Init
       ELSE tree = None /\ pattern = None
    /\ IF part = "property" THEN PF!Init
       ELSE content = None /\ text = None
    /\ IF part = "strings" THEN St!Init
       ELSE word = None /\ old = None /\ new = None /\ image = None
    /\ IF part = "timer" THEN T!Init
       ELSE due = None /\ active = None /\ singleShot = None /\ timed = None /\ doing = None
            /\ met = None
    /\ IF part = "handlers" THEN H!Init
       ELSE handlerOf = None /\ onBus = None /\ entering = None /\ called = None /\ removed = None
            /\ late = None /\ busFailed = None
    /\ IF part = "iarm" THEN I!Init
       ELSE bus = None /\ daemon = None /\ crashes = None /\ trying = None /\ retryCount = None
            /\ initResult = None /\ upSince = None
    /\ W!Init \* so that its fairness means something everywhere: nobody has called
    /\ IF part = "link" THEN L!Init
       ELSE sThunderSecurityToken = None /\ acquired = None /\ agent = None /\ getting = None
            /\ tried = None /\ link = None /\ dispatcher = None /\ firstAnswer = None
            /\ overlapped = None
    /\ IF part = "token" THEN Tk!Init
       ELSE sToken = None /\ sThunderSecurityChecked = None /\ mtx = None /\ asks = None
            /\ created = None /\ gotten = None
    /\ IF part = "reference" THEN R!Init
       ELSE interface = None /\ references = None /\ plugin = None /\ retries = None
            /\ count = None /\ made = None /\ seen = None /\ overwritten = None
    /\ IF part = "versions" THEN V!Init
       ELSE currVersion = None /\ handlers = None /\ registered = None /\ versionAPIs = None
            /\ loop = None /\ ended = None /\ unknown = None /\ repeated = None

\* The other systems are not there.
Only(p) ==
    /\ part = p
    /\ UNCHANGED part
    /\ p # "settings" => UNCHANGED settingsVars
    /\ p # "persisted" => UNCHANGED persistedVars
    /\ p # "move" => UNCHANGED moveVars
    /\ p # "mode" => UNCHANGED modeVars
    /\ p # "search" => UNCHANGED searchVars
    /\ p # "property" => UNCHANGED propertyVars
    /\ p # "strings" => UNCHANGED stringsVars
    /\ p # "timer" => UNCHANGED timerVars
    /\ p # "handlers" => UNCHANGED handlersVars
    /\ p # "iarm" => UNCHANGED iarmVars
    /\ p # "pool" => UNCHANGED poolVars
    /\ p # "link" => UNCHANGED linkVars
    /\ p # "token" => UNCHANGED tokenVars
    /\ p # "reference" => UNCHANGED referenceVars
    /\ p # "versions" => UNCHANGED versionsVars

Next ==
    \/ Only("settings") /\ S!Next
    \/ Only("persisted") /\ PJ!Next
    \/ Only("move") /\ MF!Next
    \/ Only("mode") /\ SM!Next
    \/ Only("search") /\ FS!Search
    \/ Only("property") /\ PF!Ask
    \/ Only("strings") /\ St!Next
    \/ Only("timer") /\ T!Next
    \/ Only("handlers") /\ H!Next
    \/ Only("iarm") /\ I!Next
    \/ Only("pool") /\ W!Next
    \/ Only("link") /\ L!Next
    \/ Only("token") /\ Tk!Next
    \/ Only("reference") /\ R!Next
    \/ Only("versions") /\ V!Next

Spec == Init /\ [][Next]_vars /\ W!Fairness

-----------------------------------------------------------------------------
(* The properties, which the modules explain *)

\* Settings: what a change of a key has saved is read back until it is changed again, or is known
\* to be gone.
SavedIsRead == part = "settings" => S!SavedIsRead

\* PersistedJson: a call that meets nothing keeps all other keys, and nothing waits to be synced after.
PersistedWhole == part = "persisted" => PJ!PersistedWhole

\* MoveFile: one of the two files has the whole content, unless a read failed, and what was in the
\* way is not written to.
NothingLost == part = "move" => MF!NothingLost

\* SystemModeFile: an update that meets no other one does what it was asked and nothing else.
LoneUpdateExact == part = "mode" => SM!LoneUpdateExact

\* FileSearch: the first file of each directory that agrees with the path is found.
FirstsFound == part = "search" => FS!FirstsFound

\* PropertyFile: references lead to a text in whatever order the lines are.
ReferencesFollowed == part = "property" => PF!ReferencesFollowed

\* Strings: what is split, encoded or replaced can be put together again.
TextKept == part = "strings" => St!TextKept

\* TpTimer: between calls a job is pending if and only if the timer is active, unless calls overlapped.
PendingIfActive == part = "timer" => T!PendingIfActive

\* IarmHandlers: a handler is not called once its event is removed, and no empty one without a cause.
RemovedNotCalled == part = "handlers" => H!RemovedNotCalled

\* IarmInit: an attempt of init() fails only if the daemon was down during it.
OthersDoNoHarm == part = "iarm" => I!OthersDoNoHarm

\* WorkerPool: every job of the pool has a caller that still waits for it.
JobsHaveCallers == W!JobsHaveCallers

\* DirectLink: a link has the token that was acquired first; SecurityToken: all callers get the same.
TokensKept ==
    /\ part = "link" => L!LinksCarryToken
    /\ part = "token" => Tk!OneAnswer

\* InterfaceRef: every reference has one owner, or was overwritten by a move assignment; and the
\* builder gives up only after its retries, none of which found the plugin.
ReferencesOwned == part = "reference" => R!ReferencesOwned /\ R!QueriesBounded

\* PluginVersions: all versions of an API know the same methods, and none at the end.
VersionsAlike == part = "versions" => V!VersionsAlike

\* WorkerPool: every call of activatePlugin() returns while one worker does not wait itself.
CallsReturn == W!CallsReturn
=============================================================================
