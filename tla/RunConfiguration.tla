-------------------------- MODULE RunConfiguration --------------------------
(***************************************************************************)
(* libSGCS/config/RunConfiguration, the configuration classes of the       *)
(* plugins, and the start of the program in SGCSApp/main.cpp, which is the *)
(* only code that saves.                                                   *)
(*                                                                         *)
(* The file is a map from sections to settings.  Every configuration class *)
(* reads and writes one section; get creates its object on first use.      *)
(* What is in a section is one value here: "absent" (also an empty node),  *)
(* "bad" when fromNode throws on it, or a setting.  Of the application's   *)
(* section the setting is the data source to start.                        *)
(*                                                                         *)
(* The program leaves its last loop only by a signal, so the destructor of *)
(* the singleton, which would save once more, never runs.  A save          *)
(* truncates the file and then writes it, in one write of a few hundred    *)
(* bytes: a stop between the two leaves an empty file, which loads.        *)
(***************************************************************************)
EXTENDS Naturals, Sequences

CONSTANTS
  Foreign,   \* a section that no class of the program has
  MaxEdits   \* bound on what the user does to the file

Application == "ApplicationConfiguration"

\* The libraries of the plugins directory; each has the section its constructor gets.
SectionOf == [serial  |-> "SerialConnectionConfiguration",
              ip      |-> "IPConnectionConfiguration",
              mavlink |-> "Mavlink"]

Libraries == DOMAIN SectionOf
Sources   == {"serial", "ip"}
Known     == {Application} \cup {SectionOf[l] : l \in Libraries}
Sections  == Known \cup {Foreign}
Settings  == {"default"} \cup Sources
Contents  == [Sections -> Settings \cup {"absent", "bad"}]

ASSUME ConfigurationAssumption == Foreign \notin Known /\ MaxEdits \in Nat

Nothing == [s \in Sections |-> "absent"]
Missing == [kind |-> "missing", sections |-> Nothing]
Empty   == [kind |-> "map", sections |-> Nothing]

VARIABLES
  file,     \* kind "missing", "broken" (does not parse) or "map"
  _yaml,    \* the document in memory
  _nodes,   \* the objects, in the order of their creation
  main,     \* where the main thread is; "off" and "aborted" are no program
  auto,     \* the option --auto
  toLoad,   \* libraries the loader has not come to
  loaded,   \* the plugins, in the order of their loading
  router,   \* the connection its router was made with; "null" is no connection
  reader,   \* whether the reader thread is to come to its first heartbeat
  wanted,   \* history: what the user last left in the file
  kept,     \* history: nothing has happened since that excuses a loss
  edits     \* history: how often the user changed the file

memory == <<_yaml, _nodes, toLoad, loaded, router, reader>>
user   == <<wanted, kept, edits>>
vars   == <<file, memory, main, auto, user>>

Init ==
  /\ file = Missing
  /\ _yaml = Nothing /\ _nodes = << >>
  /\ main = "off" /\ auto = FALSE
  /\ toLoad = Libraries /\ loaded = << >>
  /\ router = "none" /\ reader = "none"
  /\ wanted = Nothing /\ kept = TRUE /\ edits = 0

-----------------------------------------------------------------------------
(***************************************************************************)
(* The configuration object.                                               *)
(***************************************************************************)
Exists(s) == \E i \in DOMAIN _nodes : _nodes[i].name = s

\* Mutant: no default.
FromNodeOnly(v) == v

\* The constructors and fromNode: whatever is absent takes its default.
FromNode(v) == IF v = "absent" THEN "default" ELSE v

\* get throws when it has to read a section that does not convert.
CanGet(s) == Exists(s) \/ _yaml[s] # "bad"

\* The objects after get.
Get(s) ==
  IF Exists(s) THEN _nodes
  ELSE Append(_nodes, [name |-> s, value |-> FromNode(_yaml[s])])

\* The last object of a section writes over the others.
Current(s) ==
  LET last == CHOOSE i \in DOMAIN _nodes :
                /\ _nodes[i].name = s
                /\ \A j \in DOMAIN _nodes : _nodes[j].name = s => j <= i
  IN  _nodes[last].value

\* Mutant: a document of the program's own sections only.
ToNodeKnown == [s \in Sections |-> IF Exists(s) THEN Current(s) ELSE "absent"]

\* toNode: what no object writes stays as it was loaded.
ToNode == [s \in Sections |-> IF Exists(s) THEN Current(s) ELSE _yaml[s]]

-----------------------------------------------------------------------------
(***************************************************************************)
(* The main thread.                                                        *)
(***************************************************************************)
Quiet    == {"off", "aborted", "running"}
Writing  == {"firstWrite", "lastWrite"}

Forget ==
  /\ _yaml' = Nothing /\ _nodes' = << >>
  /\ toLoad' = Libraries /\ loaded' = << >>
  /\ router' = "none" /\ reader' = "none"

Start ==
  /\ main \in {"off", "aborted"}
  /\ main' = "create"
  /\ auto' \in BOOLEAN
  /\ UNCHANGED <<file, memory, user>>

\* create: a missing file and one that does not parse throw.
Create ==
  /\ main = "create"
  /\ \/ /\ file.kind = "map"
        /\ _yaml' = file.sections
        /\ main' = "load"
     \/ /\ file.kind # "map"
        /\ main' = "profile"
        /\ UNCHANGED _yaml
  /\ UNCHANGED <<file, _nodes, toLoad, loaded, router, reader, auto, user>>

\* The application's object, whose profile is the default one already.
SetProfile ==
  /\ main = "profile"
  /\ _nodes' = Get(Application)
  /\ main' = "firstSave"
  /\ UNCHANGED <<file, _yaml, toLoad, loaded, router, reader, auto, user>>

AfterSave(at) == IF at \in {"firstSave", "firstWrite"} THEN "load" ELSE "running"

\* save: the file is truncated, or could not be opened, which is not noticed.
Save ==
  /\ main \in {"firstSave", "lastSave"}
  /\ _yaml' = ToNode
  /\ \/ /\ file' = Empty
        /\ main' = IF main = "firstSave" THEN "firstWrite" ELSE "lastWrite"
     \/ /\ main' = AfterSave(main)
        /\ UNCHANGED file
  /\ UNCHANGED <<_nodes, toLoad, loaded, router, reader, auto, user>>

\* The write; that it failed is not noticed either.
Write ==
  /\ main \in Writing
  /\ main' = AfterSave(main)
  /\ \/ /\ file' = [kind |-> "map", sections |-> _yaml]
        /\ UNCHANGED kept
     \/ /\ kept' = FALSE
        /\ UNCHANGED file
  /\ UNCHANGED <<memory, auto, wanted, edits>>

Abort ==
  /\ main' = "aborted"
  /\ Forget
  /\ UNCHANGED <<file, auto, user>>

\* Mutant: the constructor does not ask for its configuration.
LoadLazily(l) ==
  /\ main = "load" /\ l \in toLoad
  /\ toLoad' = toLoad \ {l}
  /\ loaded' = Append(loaded, l)
  /\ UNCHANGED <<file, _yaml, _nodes, router, reader, main, auto, user>>

\* dlload: the plugin's constructor gets its configuration.
Load(l) ==
  /\ main = "load" /\ l \in toLoad
  /\ CanGet(SectionOf[l])
  /\ _nodes' = Get(SectionOf[l])
  /\ toLoad' = toLoad \ {l}
  /\ loaded' = Append(loaded, l)
  /\ UNCHANGED <<file, _yaml, router, reader, main, auto, user>>

LoadThrows(l) ==
  /\ main = "load" /\ l \in toLoad
  /\ ~CanGet(SectionOf[l])
  /\ Abort

\* dlopen or dlsym failed.
SkipLibrary(l) ==
  /\ main = "load" /\ l \in toLoad
  /\ toLoad' = toLoad \ {l}
  /\ UNCHANGED <<file, _yaml, _nodes, loaded, router, reader, main, auto, user>>

LoadingEnds ==
  /\ main = "load" /\ toLoad = {}
  /\ main' = "autostart"
  /\ UNCHANGED <<file, memory, auto, user>>

IsLoaded(l) == \E i \in DOMAIN loaded : loaded[i] = l

\* A connection with its router; the vehicle's first heartbeat may come from now on.
\* (A data source that the configuration names is asked for its instance twice, for
\* a test and for the router: one connection here.)
Connect(source) ==
  /\ router' = source
  /\ reader' = IF source # "null" /\ IsLoaded("mavlink") THEN "waiting" ELSE "none"
  /\ main' = IF source = "null" THEN "assert" ELSE "lastSave"
  /\ UNCHANGED <<file, _yaml, toLoad, loaded, auto, user>>

\* The data source the configuration names.
StartNamed(source) ==
  /\ main = "autostart"
  /\ CanGet(Application)
  /\ _nodes' = Get(Application)
  /\ Current(Application)' = source
  /\ IsLoaded(source)
  /\ Connect(source)

FirstSource(source) ==
  \E i \in DOMAIN loaded :
    /\ loaded[i] = source
    /\ \A j \in 1..(i - 1) : loaded[j] \notin Sources

\* --auto: the instance of the first data source, whatever it is.
StartFirst(source) ==
  /\ main = "autostart"
  /\ CanGet(Application)
  /\ _nodes' = Get(Application)
  /\ Current(Application)' = "default" /\ auto
  /\ FirstSource(source)
  /\ Connect(IF source = "ip" THEN "null" ELSE source)

StartNothing ==
  /\ main = "autostart"
  /\ CanGet(Application)
  /\ _nodes' = Get(Application)
  /\ LET source == Current(Application)'
     IN  IF source = "default"
         THEN auto => \A l \in Sources : ~IsLoaded(l)
         ELSE ~IsLoaded(source)
  /\ main' = "lastSave"
  /\ UNCHANGED <<file, _yaml, toLoad, loaded, router, reader, auto, user>>

AutostartThrows ==
  /\ main = "autostart"
  /\ ~CanGet(Application)
  /\ Abort

\* The assertion of the router's constructor.
RouterAsserts ==
  /\ main = "assert"
  /\ Abort

-----------------------------------------------------------------------------
(***************************************************************************)
(* The reader thread: the first heartbeat asks the vehicle for its rates.  *)
(***************************************************************************)
FirstHeartbeat ==
  /\ reader = "waiting"
  /\ _nodes' = Get("Mavlink")
  /\ reader' = "done"
  /\ UNCHANGED <<file, _yaml, toLoad, loaded, router, main, auto, user>>

-----------------------------------------------------------------------------
(***************************************************************************)
(* The user and the machine.  Nobody edits within the moments of a save.   *)
(***************************************************************************)
Change(f) ==
  /\ main \notin Writing
  /\ edits < MaxEdits
  /\ edits' = edits + 1
  /\ file' = f
  /\ wanted' = f.sections
  /\ kept' = (main \in Quiet /\ f.kind # "broken")
  /\ UNCHANGED <<memory, main, auto>>

Edit(s, v) == Change([kind |-> "map", sections |-> [file.sections EXCEPT ![s] = v]])
Misspell   == Change([file EXCEPT !.kind = "broken"])
Remove     == Change(Missing)

Kill ==
  /\ main \notin {"off", "aborted"}
  /\ main' = "off"
  /\ Forget
  /\ kept' = (kept /\ main \notin Writing)
  /\ UNCHANGED <<file, auto, wanted, edits>>

Main ==
  \/ Start \/ Create \/ SetProfile \/ Save \/ Write
  \/ \E l \in Libraries : Load(l) \/ LoadThrows(l) \/ SkipLibrary(l)
  \/ LoadingEnds
  \/ \E source \in Sources : StartNamed(source) \/ StartFirst(source)
  \/ StartNothing \/ AutostartThrows \/ RouterAsserts

Users ==
  \/ \E s \in Sections, v \in Settings \cup {"bad"} : Edit(s, v)
  \/ Misspell \/ Remove

Next == Main \/ FirstHeartbeat \/ Users \/ Kill

Spec == Init /\ [][Next]_vars

-----------------------------------------------------------------------------
(***************************************************************************)
(* Properties.                                                             *)
(***************************************************************************)
\* The type invariant.
TypeOK ==
  /\ file \in [kind : {"missing", "broken", "map"}, sections : Contents]
  /\ _yaml \in Contents
  /\ _nodes \in Seq([name : Known, value : Settings])
  /\ main \in Quiet \cup Writing \cup {"create", "profile", "firstSave", "load",
                                      "autostart", "assert", "lastSave"}
  /\ auto \in BOOLEAN
  /\ toLoad \subseteq Libraries /\ loaded \in Seq(Libraries)
  /\ router \in Sources \cup {"none", "null"}
  /\ reader \in {"none", "waiting", "done"}
  /\ wanted \in Contents /\ kept \in BOOLEAN /\ edits \in 0..MaxEdits

\* Whatever starts, aborts, kills and failed opens follow, the file holds every
\* setting the user left in it, those of sections the program does not know and of
\* plugins that were not loaded included.  Excused are a document that does not
\* parse, an edit while the program starts, and a stop or an error between
\* truncation and write.
SettingsSurvive ==
  (kept /\ main \notin Writing) =>
    \A s \in Sections :
      wanted[s] # "absent" => file.kind = "map" /\ file.sections[s] = wanted[s]

\* The list of objects has no lock: the reader thread, which comes to it while the
\* main thread may be saving, finds its object there and never appends one.
ReaderOnlyFinds == [][FirstHeartbeat => UNCHANGED _nodes]_vars

\* assert(m_connection != nullptr) in ConnectionRouter's constructor.
RouterHasConnection == router # "null"
=============================================================================
