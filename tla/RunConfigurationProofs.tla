----------------------- MODULE RunConfigurationProofs -----------------------
(***************************************************************************)
(* Proofs about RunConfiguration: what survives starts, aborts and kills,  *)
(* and that the reader thread never changes the list of objects.           *)
(***************************************************************************)
EXTENDS RunConfiguration, TLAPS

Objects == [name : Known, value : Settings]

\* A section has one object, so that the order of writing does not matter.
Unique == \A i, j \in DOMAIN _nodes : _nodes[i].name = _nodes[j].name => i = j

\* An object has what its section of the document says.
Faithful == \A i \in DOMAIN _nodes : _nodes[i].value = FromNode(_yaml[_nodes[i].name])

\* There is nothing in memory before the file is read.
Fresh ==
  /\ main \in {"off", "aborted", "create", "profile"} =>
       _nodes = << >> /\ loaded = << >> /\ reader = "none" /\ _yaml = Nothing

\* A plugin that is loaded has its object.
Configured ==
  /\ \A i \in DOMAIN loaded : Exists(SectionOf[loaded[i]])
  /\ reader = "waiting" => Exists("Mavlink")

\* While the file is not to be relied on, the document has what the user wants.
Remembered ==
  kept =>
    /\ main \in Writing \cup {"load", "autostart", "assert", "lastSave"} =>
         \A s \in Sections : wanted[s] # "absent" => _yaml[s] = wanted[s]
    /\ main \in {"profile", "firstSave"} => \A s \in Sections : wanted[s] = "absent"

Inv == TypeOK /\ Unique /\ Faithful /\ Fresh /\ Configured /\ Remembered /\ SettingsSurvive

-----------------------------------------------------------------------------
\* The sections of the plugins are known, and the reader's is the Mavlink plugin's.
LEMMA Names ==
  /\ Libraries = {"serial", "ip", "mavlink"}
  /\ \A l \in Libraries : SectionOf[l] \in Known
  /\ Application \in Known /\ SectionOf["mavlink"] = "Mavlink" /\ "Mavlink" \in Known
  /\ Known \subseteq Sections
<1>1. Libraries = {"serial", "ip", "mavlink"}
  BY DEF Libraries, SectionOf
<1>2. \A l \in Libraries : SectionOf[l] \in Known
  BY DEF Known
<1>3. SectionOf["mavlink"] = "Mavlink"
  BY DEF SectionOf
<1> QED BY <1>1, <1>2, <1>3 DEF Known, Sections

\* A document before it is read has no section.
LEMMA NothingIsContents == Nothing \in Contents /\ \A s \in Sections : Nothing[s] = "absent"
BY DEF Nothing, Contents

\* get: the object asked for is there afterwards, and the list stays in order.
LEMMA GetFacts ==
  ASSUME TypeOK, Unique, Faithful, NEW s \in Known, CanGet(s),
         _nodes' = Get(s), _yaml' = _yaml
  PROVE  /\ _nodes' \in Seq(Objects)
         /\ Unique' /\ Faithful' /\ Exists(s)'
         /\ \A t : Exists(t) => Exists(t)'
<1>1. _nodes \in Seq(Objects)
  BY DEF TypeOK, Objects
<1>2. CASE Exists(s)
  <2>1. _nodes' = _nodes
    BY <1>2 DEF Get
  <2> QED BY <1>1, <1>2, <2>1 DEF Unique, Faithful, Exists
<1>3. CASE ~Exists(s)
  <2> DEFINE new == [name |-> s, value |-> FromNode(_yaml[s])]
  <2>1. new \in Objects
    <3>1. _yaml[s] \in Settings \cup {"absent"}
      <4>1. s \in Sections /\ _yaml \in Contents
        BY Names DEF TypeOK
      <4>2. _yaml[s] \in Settings \cup {"absent", "bad"}
        BY <4>1 DEF Contents
      <4> QED BY <1>3, <4>2 DEF CanGet
    <3>2. FromNode(_yaml[s]) \in Settings
      BY <3>1 DEF FromNode, Settings
    <3> QED BY <3>2 DEF Objects
  <2>2. _nodes' = Append(_nodes, new)
    BY <1>3 DEF Get
  <2> HIDE DEF new
  <2>3. /\ _nodes' \in Seq(Objects) /\ DOMAIN _nodes = 1..Len(_nodes) /\ Len(_nodes) \in Nat
        /\ DOMAIN _nodes' = 1..(Len(_nodes) + 1)
        /\ \A i \in DOMAIN _nodes : _nodes'[i] = _nodes[i]
        /\ _nodes'[Len(_nodes) + 1] = new
    BY <1>1, <2>1, <2>2
  <2>4. \A i \in DOMAIN _nodes' : i \in DOMAIN _nodes \/ i = Len(_nodes) + 1
    BY <2>3
  <2>5. Unique'
    <3>1. \A i \in DOMAIN _nodes : _nodes[i].name # s
      BY <1>3 DEF Exists
    <3>2. new.name = s
      BY DEF new
    <3> QED BY <2>3, <2>4, <3>1, <3>2 DEF Unique
  <2>6. Faithful'
    <3>1. new.value = FromNode(_yaml[new.name])
      BY DEF new
    <3> QED BY <2>3, <2>4, <3>1 DEF Faithful, FromNode
  <2>7. Exists(s)' /\ \A t : Exists(t) => Exists(t)'
    <3>1. new.name = s /\ DOMAIN _nodes \subseteq DOMAIN _nodes' /\ Len(_nodes) + 1 \in DOMAIN _nodes'
      BY <2>3 DEF new
    <3> QED BY <2>3, <3>1 DEF Exists
  <2> QED BY <2>3, <2>5, <2>6, <2>7
<1> QED BY <1>2, <1>3

\* toNode: a section keeps what it had, or has the default if it had nothing.
LEMMA ToNodeFacts ==
  ASSUME TypeOK, Unique, Faithful
  PROVE  /\ ToNode \in Contents
         /\ \A s \in Sections : /\ ToNode[s] \in {_yaml[s], FromNode(_yaml[s])}
                               /\ FromNode(ToNode[s]) = FromNode(_yaml[s])
<1> SUFFICES ASSUME NEW s \in Sections
             PROVE  /\ ToNode[s] \in Settings \cup {"absent", "bad"}
                    /\ ToNode[s] \in {_yaml[s], FromNode(_yaml[s])}
  BY DEF ToNode, Contents, FromNode
<1>1. _yaml[s] \in Settings \cup {"absent", "bad"}
  BY DEF TypeOK, Contents
<1>2. CASE ~Exists(s)
  BY <1>1, <1>2 DEF ToNode
<1>3. CASE Exists(s)
  <2>1. PICK i \in DOMAIN _nodes : _nodes[i].name = s
    BY <1>3 DEF Exists
  <2>2. DOMAIN _nodes \subseteq Nat
    BY DEF TypeOK
  <2>3. \A j \in DOMAIN _nodes : _nodes[j].name = s => j = i
    BY <2>1 DEF Unique
  <2>4. Current(s) = _nodes[i].value
    BY <2>1, <2>2, <2>3 DEF Current
  <2>5. Current(s) = FromNode(_yaml[s])
    BY <2>1, <2>4 DEF Faithful
  <2>6. FromNode(_yaml[s]) \in Settings \cup {"absent", "bad"}
    BY <1>1 DEF FromNode, Settings
  <2> QED BY <1>3, <2>5, <2>6 DEF ToNode
<1> QED BY <1>2, <1>3

-----------------------------------------------------------------------------
(***************************************************************************)
(* The steps that are parts of several actions.                            *)
(***************************************************************************)
\* The end of a process leaves nothing in memory (RunConfiguration::clear).
LEMMA ForgetFacts ==
  ASSUME Forget, main' \in {"off", "aborted"}
  PROVE  /\ _yaml' \in Contents /\ _nodes' \in Seq(Objects)
         /\ toLoad' \subseteq Libraries /\ loaded' \in Seq(Libraries)
         /\ router' = "none" /\ reader' = "none"
         /\ Unique' /\ Faithful' /\ Fresh' /\ Configured'
<1>1. DOMAIN _nodes' = {} /\ DOMAIN loaded' = {}
  BY DEF Forget
<1>2. Unique' /\ Faithful' /\ Configured'
  BY <1>1 DEF Unique, Faithful, Configured, Forget
<1>3. Fresh'
  BY DEF Fresh, Forget
<1> QED BY <1>2, <1>3, NothingIsContents DEF Forget

\* An exception or a failed assertion keeps the invariant.
LEMMA AbortKeeps ==
  ASSUME Inv, main \notin Writing, Abort
  PROVE  Inv'
<1> USE DEF Inv
<1>1. /\ _yaml' \in Contents /\ _nodes' \in Seq(Objects)
      /\ toLoad' \subseteq Libraries /\ loaded' \in Seq(Libraries)
      /\ router' = "none" /\ reader' = "none"
      /\ Unique' /\ Faithful' /\ Fresh' /\ Configured'
  BY ForgetFacts DEF Abort
<1>2. TypeOK'
  BY <1>1 DEF TypeOK, Abort, user, Objects, Quiet
<1>3. Remembered'
  BY DEF Remembered, Abort, Writing
<1>4. SettingsSurvive'
  BY DEF SettingsSurvive, Abort, user
<1> QED BY <1>1, <1>2, <1>3, <1>4

\* A change of the file by its user keeps the invariant.
LEMMA ChangeKeeps ==
  ASSUME Inv, NEW f \in [kind : {"missing", "broken", "map"}, sections : Contents],
         f.kind = "missing" => f.sections = Nothing,
         Change(f)
  PROVE  Inv'
<1> USE DEF Inv
<1>1. TypeOK'
  <2>1. edits' \in 0..MaxEdits
    BY ConfigurationAssumption DEF TypeOK, Change
  <2>2. file' \in [kind : {"missing", "broken", "map"}, sections : Contents] /\ wanted' \in Contents
    BY DEF Change
  <2>3. kept' \in BOOLEAN
    BY Zenon DEF Change
  <2> QED BY <2>1, <2>2, <2>3 DEF TypeOK, Change, memory
<1>2. Unique' /\ Faithful' /\ Fresh' /\ Configured'
  BY DEF Change, memory, Unique, Faithful, Fresh, Configured, Exists
<1>3. kept' => main' \in Quiet /\ f.kind # "broken"
  BY Zenon DEF Change
<1>4. Remembered'
  BY <1>3 DEF Remembered, Quiet, Writing
<1>5. SettingsSurvive'
  <2> SUFFICES ASSUME kept', NEW s \in Sections, wanted'[s] # "absent"
               PROVE  file'.kind = "map" /\ file'.sections[s] = wanted'[s]
    BY DEF SettingsSurvive
  <2>1. f.kind # "missing"
    BY NothingIsContents DEF Change
  <2> QED BY <1>3, <2>1 DEF Change
<1> QED BY <1>1, <1>2, <1>4, <1>5

\* An access to the configuration that finds or makes its object; the program goes
\* from one place of its start to another.
LEMMA GetKeeps ==
  ASSUME Inv, NEW s \in Known, CanGet(s), _nodes' = Get(s),
         UNCHANGED <<file, _yaml, user>>,
         toLoad' \subseteq Libraries,
         \/ loaded' = loaded
         \/ \E l \in Libraries : SectionOf[l] = s /\ loaded' = Append(loaded, l),
         auto' \in BOOLEAN,
         router' \in Sources \cup {"none", "null"},
         reader' \in {"none", "waiting", "done"},
         reader' = "waiting" => (reader = "waiting" \/ IsLoaded("mavlink")),
         main' \in {main} \cup {"assert", "lastSave"},
         main' # main => main = "autostart",
         main \notin {"off", "aborted", "create", "profile"}
  PROVE  Inv'
<1> USE DEF Inv
<1>1. /\ _nodes' \in Seq(Objects)
      /\ Unique' /\ Faithful' /\ Exists(s)'
      /\ \A t : Exists(t) => Exists(t)'
  BY GetFacts
<1>2. loaded \in Seq(Libraries) /\ loaded' \in Seq(Libraries)
  BY DEF TypeOK
<1>3. TypeOK'
  <2>1. main' \in Quiet \cup Writing \cup {"create", "profile", "firstSave", "load",
                                        "autostart", "assert", "lastSave"}
    BY DEF TypeOK
  <2> QED BY <1>1, <1>2, <2>1 DEF TypeOK, user, Objects
<1>4. Fresh'
  BY DEF Fresh, TypeOK, Quiet, Writing
<1>5. Configured'
  <2>1. (\A i \in DOMAIN loaded : Exists(SectionOf[loaded[i]]))'
    <3>1. CASE loaded' = loaded
      BY <1>1, <3>1 DEF Configured, Exists
    <3>2. ASSUME NEW l \in Libraries, SectionOf[l] = s, loaded' = Append(loaded, l)
          PROVE  (\A i \in DOMAIN loaded : Exists(SectionOf[loaded[i]]))'
      <4>1. \A i \in DOMAIN loaded' :
              \/ i \in DOMAIN loaded /\ loaded'[i] = loaded[i]
              \/ loaded'[i] = l
        BY <1>2, <3>2
      <4>2. ASSUME NEW i \in DOMAIN loaded' PROVE Exists(SectionOf[loaded[i]])'
        <5>1. CASE i \in DOMAIN loaded /\ loaded'[i] = loaded[i]
          <6>1. Exists(SectionOf[loaded[i]])
            BY <5>1 DEF Configured
          <6>2. PICK j \in DOMAIN _nodes' : _nodes'[j].name = SectionOf[loaded[i]]
            BY <1>1, <6>1 DEF Exists
          <6> QED BY <5>1, <6>2 DEF Exists
        <5>2. CASE loaded'[i] = l
          BY <1>1, <3>2, <5>2 DEF Exists
        <5> QED BY <4>1, <5>1, <5>2
      <4> QED BY <4>2
    <3> QED BY <3>1, <3>2
  <2>2. reader' = "waiting" => Exists("Mavlink")
    BY Names DEF Configured, IsLoaded
  <2> QED BY <1>1, <2>1, <2>2 DEF Configured
<1>6. Remembered'
  BY DEF Remembered, user, Writing
<1>7. SettingsSurvive'
  BY DEF SettingsSurvive, user, Writing
<1> QED BY <1>1, <1>3, <1>4, <1>5, <1>6, <1>7

-----------------------------------------------------------------------------
\* The conjunction is inductive: every step of the start, the reader, the user and
\* the machine keeps it.
THEOREM Invariance == Spec => []Inv
<1>1. Init => Inv
  <2> SUFFICES ASSUME Init PROVE Inv
    OBVIOUS
  <2>1. TypeOK
    <3>1. file \in [kind : {"missing", "broken", "map"}, sections : Contents]
      BY NothingIsContents DEF Init, Missing
    <3>2. _nodes \in Seq([name : Known, value : Settings]) /\ loaded \in Seq(Libraries)
      BY DEF Init
    <3>3. edits \in 0..MaxEdits
      BY ConfigurationAssumption DEF Init
    <3> QED BY <3>1, <3>2, <3>3, NothingIsContents DEF Init, TypeOK, Quiet
  <2>2. DOMAIN _nodes = {} /\ DOMAIN loaded = {}
    BY DEF Init
  <2>3. Unique /\ Faithful /\ Fresh /\ Configured
    BY <2>2 DEF Init, Unique, Faithful, Fresh, Configured
  <2>4. Remembered /\ SettingsSurvive
    BY NothingIsContents DEF Init, Remembered, SettingsSurvive, Writing
  <2> QED BY <2>1, <2>3, <2>4 DEF Inv
<1>2. Inv /\ [Next]_vars => Inv'
  <2> SUFFICES ASSUME Inv, [Next]_vars PROVE Inv'
    OBVIOUS
  <2>1. CASE Start
    <3> USE DEF Inv
    <3>1. TypeOK'
      BY <2>1 DEF Start, TypeOK, memory, user
    <3>2. Unique' /\ Faithful' /\ Fresh' /\ Configured'
      BY <2>1 DEF Start, memory, Unique, Faithful, Fresh, Configured, Exists
    <3>3. Remembered' /\ SettingsSurvive'
      BY <2>1 DEF Start, memory, user, Remembered, SettingsSurvive, Writing
    <3> QED BY <3>1, <3>2, <3>3
  <2>2. CASE Create
    <3> USE DEF Inv
    <3>1. file.sections \in Contents
      BY DEF TypeOK
    <3>2. TypeOK'
      BY <2>2, <3>1 DEF Create, TypeOK, user
    <3>3. _nodes' = << >> /\ _nodes = << >> /\ loaded' = << >> /\ reader' = "none"
      BY <2>2 DEF Create, Fresh
    <3>4. DOMAIN _nodes' = {} /\ DOMAIN loaded' = {}
      BY <3>3
    <3>5. Unique' /\ Faithful' /\ Fresh' /\ Configured'
      BY <2>2, <3>3, <3>4 DEF Create, Unique, Faithful, Fresh, Configured
    <3>6. Remembered'
      BY <2>2 DEF Create, user, Remembered, SettingsSurvive, Writing
    <3>7. SettingsSurvive'
      BY <2>2 DEF Create, user, SettingsSurvive, Writing
    <3> QED BY <3>2, <3>5, <3>6, <3>7
  <2>3. CASE SetProfile
    <3> USE DEF Inv
    <3>1. CanGet(Application)
      <4>1. _yaml[Application] = "absent"
        BY <2>3, Names, NothingIsContents DEF SetProfile, Fresh
      <4> QED BY <4>1 DEF CanGet
    <3>2. /\ _nodes' \in Seq(Objects) /\ Unique' /\ Faithful'
          /\ \A t : Exists(t) => Exists(t)'
      BY <2>3, <3>1, Names, GetFacts DEF SetProfile
    <3>3. TypeOK'
      BY <2>3, <3>2 DEF SetProfile, TypeOK, user, Objects
    <3>4. Fresh'
      BY <2>3 DEF SetProfile, Fresh
    <3>5. Configured'
      <4>1. \A i \in DOMAIN loaded : Exists(SectionOf[loaded[i]])'
        BY <2>3, <3>2 DEF SetProfile, Configured, Exists
      <4> QED BY <2>3, <3>2, <4>1 DEF SetProfile, Configured, Exists
    <3>6. Remembered' /\ SettingsSurvive'
      BY <2>3 DEF SetProfile, user, Remembered, SettingsSurvive, Writing
    <3> QED BY <3>2, <3>3, <3>4, <3>5, <3>6
  <2>4. CASE Save
    <3> USE DEF Inv
    <3>1. /\ _yaml' \in Contents /\ _yaml' = ToNode
          /\ \A s \in Sections : /\ _yaml'[s] \in {_yaml[s], FromNode(_yaml[s])}
                                /\ FromNode(_yaml'[s]) = FromNode(_yaml[s])
      BY <2>4, ToNodeFacts DEF Save
    <3>2. TypeOK'
      BY <2>4, <3>1, NothingIsContents DEF Save, TypeOK, Empty, AfterSave, user, Writing, Quiet
    <3>3. Unique' /\ Configured'
      BY <2>4 DEF Save, Unique, Configured, Exists
    <3>4. Faithful'
      <4>1. \A i \in DOMAIN _nodes : _nodes[i].name \in Sections
        <5>1. _nodes \in Seq(Objects)
          BY DEF TypeOK, Objects
        <5>2. \A i \in DOMAIN _nodes : _nodes[i] \in Objects
          BY <5>1
        <5> QED BY <5>2, Names DEF Objects
      <4> QED BY <2>4, <3>1, <4>1 DEF Save, Faithful, FromNode
    <3>5. Fresh'
      BY <2>4 DEF Save, Fresh, AfterSave
    <3>6. Remembered'
      <4>1. \A s \in Sections : _yaml[s] # "absent" => _yaml'[s] = _yaml[s]
        BY <3>1 DEF FromNode
      <4> QED BY <2>4, <4>1 DEF Save, user, Remembered, AfterSave, Writing
    <3>7. SettingsSurvive'
      BY <2>4 DEF Save, user, SettingsSurvive, AfterSave, Writing
    <3> QED BY <3>2, <3>3, <3>4, <3>5, <3>6, <3>7
  <2>5. CASE Write
    <3> USE DEF Inv
    <3>1. kept' \in BOOLEAN /\ (kept' => kept)
      <4>1. CASE kept' = kept
        BY <4>1 DEF TypeOK
      <4>2. CASE kept' = FALSE
        BY <4>2, Zenon
      <4> QED BY <2>5, <4>1, <4>2 DEF Write
    <3>2. TypeOK'
      BY <2>5, <3>1 DEF Write, TypeOK, AfterSave, memory, Writing, Quiet
    <3>3. Unique' /\ Faithful' /\ Configured' /\ Fresh'
      BY <2>5 DEF Write, Unique, Faithful, Configured, Exists, Fresh, AfterSave, memory, Writing
    <3>4. Remembered'
      BY <2>5, <3>1 DEF Write, Remembered, AfterSave, memory, Writing
    <3>5. SettingsSurvive'
      BY <2>5, <3>1 DEF Write, Remembered, SettingsSurvive, AfterSave, memory, Writing
    <3> QED BY <3>2, <3>3, <3>4, <3>5
  <2>6. ASSUME NEW l \in Libraries, Load(l)
        PROVE  Inv'
    <3>1. SectionOf[l] \in Known
      BY Names
    <3>2. /\ auto' \in BOOLEAN /\ router' \in Sources \cup {"none", "null"}
          /\ reader' \in {"none", "waiting", "done"}
          /\ toLoad' \subseteq Libraries
      BY <2>6 DEF Load, Inv, TypeOK, user
    <3> QED BY <2>6, <3>1, <3>2, GetKeeps DEF Load
  <2>7. ASSUME NEW l \in Libraries, LoadThrows(l)
        PROVE  Inv'
    BY <2>7, AbortKeeps DEF LoadThrows, Writing
  <2>8. CASE (\E l \in Libraries : SkipLibrary(l)) \/ LoadingEnds
    <3> USE DEF Inv
    <3>1. TypeOK'
      BY <2>8 DEF SkipLibrary, LoadingEnds, TypeOK, memory, user
    <3>2. Unique' /\ Faithful' /\ Configured' /\ Fresh'
      BY <2>8 DEF SkipLibrary, LoadingEnds, Unique, Faithful, Configured, Exists, Fresh, memory
    <3>3. Remembered' /\ SettingsSurvive'
      BY <2>8 DEF SkipLibrary, LoadingEnds, Remembered, SettingsSurvive, memory, user, Writing
    <3> QED BY <3>1, <3>2, <3>3
  <2>9. ASSUME NEW source \in Sources, StartNamed(source) \/ StartFirst(source)
        PROVE  Inv'
    <3>1. PICK given \in Sources \cup {"null"} : Connect(given)
      BY <2>9 DEF StartNamed, StartFirst
    <3>2. /\ main = "autostart" /\ CanGet(Application) /\ _nodes' = Get(Application)
      BY <2>9 DEF StartNamed, StartFirst
    <3>3. /\ toLoad' \subseteq Libraries /\ loaded' = loaded /\ auto' \in BOOLEAN
          /\ router' \in Sources \cup {"none", "null"}
          /\ reader' \in {"none", "waiting", "done"}
          /\ reader' = "waiting" => IsLoaded("mavlink")
          /\ main' \in {"assert", "lastSave"}
          /\ UNCHANGED <<file, _yaml, user>>
      BY <3>1 DEF Connect, Inv, TypeOK
    <3> QED BY <3>2, <3>3, Names, GetKeeps
  <2>10. CASE StartNothing
    <3>1. /\ auto' \in BOOLEAN /\ router' \in Sources \cup {"none", "null"}
          /\ reader' \in {"none", "waiting", "done"}
          /\ toLoad' \subseteq Libraries
      BY <2>10 DEF StartNothing, Inv, TypeOK
    <3> QED BY <2>10, <3>1, Names, GetKeeps DEF StartNothing
  <2>11. CASE AutostartThrows \/ RouterAsserts
    BY <2>11, AbortKeeps DEF AutostartThrows, RouterAsserts, Writing
  <2>12. CASE FirstHeartbeat
    <3>1. Exists("Mavlink") /\ CanGet("Mavlink")
      BY <2>12 DEF FirstHeartbeat, Inv, Configured, CanGet
    <3>2. /\ auto' \in BOOLEAN /\ router' \in Sources \cup {"none", "null"}
          /\ reader' \in {"none", "waiting", "done"}
          /\ toLoad' \subseteq Libraries
      BY <2>12 DEF FirstHeartbeat, Inv, TypeOK
    <3>3. main \notin {"off", "aborted", "create", "profile"}
      BY <2>12 DEF FirstHeartbeat, Inv, Fresh
    <3> QED BY <2>12, <3>1, <3>2, <3>3, Names, GetKeeps DEF FirstHeartbeat
  <2>13. CASE Users
    <3>1. \A s \in Sections, v \in Settings \cup {"bad"} :
            [file.sections EXCEPT ![s] = v] \in Contents
      BY DEF Inv, TypeOK, Contents
    <3>2. ASSUME NEW s \in Sections, NEW v \in Settings \cup {"bad"}, Edit(s, v)
          PROVE  Inv'
      BY <3>1, <3>2, ChangeKeeps DEF Edit
    <3>3. CASE Misspell
      <4>1. /\ [file EXCEPT !.kind = "broken"] \in [kind : {"missing", "broken", "map"}, sections : Contents]
            /\ [file EXCEPT !.kind = "broken"].kind = "broken"
        BY DEF Inv, TypeOK
      <4> QED BY <3>3, <4>1, ChangeKeeps DEF Misspell
    <3>4. CASE Remove
      BY <3>4, NothingIsContents, ChangeKeeps DEF Remove, Missing
    <3> QED BY <2>13, <3>2, <3>3, <3>4 DEF Users
  <2>14. CASE Kill
    <3> USE DEF Inv
    <3>1. /\ _yaml' \in Contents /\ _nodes' \in Seq(Objects)
          /\ toLoad' \subseteq Libraries /\ loaded' \in Seq(Libraries)
          /\ router' = "none" /\ reader' = "none"
          /\ Unique' /\ Faithful' /\ Fresh' /\ Configured'
      BY <2>14, ForgetFacts DEF Kill
    <3>2. kept' \in BOOLEAN /\ (kept' => kept /\ main \notin Writing)
      BY <2>14, Zenon DEF Kill
    <3>3. TypeOK'
      BY <2>14, <3>1, <3>2 DEF Kill, TypeOK, Objects, Quiet
    <3>4. Remembered' /\ SettingsSurvive'
      BY <2>14, <3>2 DEF Kill, Remembered, SettingsSurvive, Writing
    <3> QED BY <3>1, <3>3, <3>4
  <2>15. CASE UNCHANGED vars
    <3> USE DEF Inv, vars, memory, user
    <3>1. TypeOK'
      BY <2>15 DEF TypeOK
    <3>2. Unique' /\ Faithful' /\ Configured' /\ Fresh'
      BY <2>15 DEF Unique, Faithful, Configured, Exists, Fresh
    <3>3. Remembered' /\ SettingsSurvive'
      BY <2>15 DEF Remembered, SettingsSurvive
    <3> QED BY <3>1, <3>2, <3>3
  <2> QED
    BY <2>1, <2>2, <2>3, <2>4, <2>5, <2>6, <2>7, <2>8, <2>9, <2>10, <2>11, <2>12,
       <2>13, <2>14, <2>15 DEF Next, Main
<1> QED BY <1>1, <1>2, PTL DEF Spec

-----------------------------------------------------------------------------
\* The variables keep their types: no object has a value that fromNode throws on.
THEOREM TypeCorrect == Spec => []TypeOK
<1>1. Inv => TypeOK
  BY DEF Inv
<1> QED BY <1>1, Invariance, PTL

\* For any section the program does not know and any number of edits, starts, aborts
\* and kills: what the user has set stays in the file.
THEOREM SettingsAlwaysSurvive == Spec => []SettingsSurvive
<1>1. Inv => SettingsSurvive
  BY DEF Inv
<1> QED BY <1>1, Invariance, PTL

\* The reader thread never appends to the list the main thread iterates.
THEOREM ReaderAlwaysFinds == Spec => ReaderOnlyFinds
<1>1. Inv /\ [Next]_vars => [FirstHeartbeat => UNCHANGED _nodes]_vars
  BY DEF Inv, Configured, FirstHeartbeat, Get
<1> QED BY <1>1, Invariance, PTL DEF Spec, ReaderOnlyFinds
=============================================================================
