--------------------------- MODULE LayerHooksProofs ---------------------------
(***************************************************************************)
(* Proofs about LayerHooks for all settings and every number of rewrites   *)
(* of the file: the types and what the libraries were initialized with for *)
(* any windows, the two properties of presents and deleters for one.       *)
(***************************************************************************)
EXTENDS LayerHooks, FiniteSetTheorems, TLAPS

USE SettingsAssumption, EventsAssumption
    DEF fileVars, libraries, tables, call

\* The old swapchain has given up its context before anything else happens,
\* and so has the window a constructor runs for.
RetiredInv ==
  /\ \A w \in Windows : retired[w] \in {Absent, NoSwapchain}
  /\ at # "idle" => context[window] = Absent

\* A library that is initialized holds the active configuration, which names
\* it, and one with contexts is initialized.
LibrariesHoldActive ==
  \A p \in BOOLEAN :
    /\ library[p] # NoSettings => library[p] = conf.settings /\ conf.settings.performance = p
    /\ contexts[p] # {} => library[p] # NoSettings

\* A context is known to its library and was built for the active
\* configuration; without one there is nothing to generate.
ContextInv ==
  \A w \in Windows :
    /\ context[w].id \in Ids =>
         /\ context[w].id \in contexts[context[w].performance]
         /\ context[w].multiplier = conf.settings.multiplier
         /\ context[w].performance = conf.settings.performance
    /\ context[w] = Null => conf.settings.multiplier <= 1

\* One swapchain at a time, and the ones it replaces.
OneWindow == \A u, w \in Windows : u = w

-----------------------------------------------------------------------------
(* Settings and contexts.                                                  *)

LEMMA SettingsParts ==
  /\ NoSettings \notin AllSettings
  /\ \A s \in AllSettings : /\ s.multiplier \in Nat \ {0} /\ s.performance \in BOOLEAN
                            /\ s.e_present \in Modes
  /\ Settings \subseteq AllSettings /\ Default \in AllSettings
  BY DEF AllSettings, NoSettings

LEMMA ContextParts ==
  ASSUME NEW c \in Contexts
  PROVE  /\ c.performance \in BOOLEAN
         /\ c.id \in Ids \/ c \in {Null, Absent, NoSwapchain}
         /\ c \in {Null, Absent, NoSwapchain} => c.id \notin Ids /\ ~ (c.id > 0)
         /\ c.id \in Ids => c.id > 0
<1>1. Cardinality(Windows) \in Nat
  BY WindowsAssumption, FS_CardinalityType
<1>2. \A i \in Ids : i \in Nat /\ i > 0
  BY <1>1 DEF Ids
<1>3. /\ Null.id = 0 /\ Absent.id = -1 /\ NoSwapchain.id = -2
      /\ Null.performance \in BOOLEAN /\ Absent.performance \in BOOLEAN
      /\ NoSwapchain.performance \in BOOLEAN
  BY DEF Null, Absent, NoSwapchain
<1>4. CASE c \in {Null, Absent, NoSwapchain}
  BY <1>2, <1>3, <1>4
<1>5. CASE c \in [id : Ids, multiplier : Nat \ {0}, performance : BOOLEAN]
  BY <1>2, <1>3, <1>5
<1>6. QED
  BY <1>4, <1>5 DEF Contexts

\* There are twice as many identifiers as windows, and one context per window.
LEMMA FreshIdExists ==
  ASSUME TypeOK, RetiredInv
  PROVE  FreshId \in Ids
<1> DEFINE n == Cardinality(Windows)
           Used(i, w) == i \in {context[w].id, retired[w].id}
<1>1. IsFiniteSet(Windows) /\ n \in Nat \ {0}
  BY WindowsAssumption, FS_EmptySet, FS_CardinalityType DEF TypeOK, CallTypes
<1>2. IsFiniteSet(Ids) /\ Cardinality(Ids) = 2 * n
  BY <1>1, FS_Interval DEF Ids
<1> HIDE DEF n
<1>3. \E i \in Ids : \A w \in Windows : ~ Used(i, w)
  <2> SUFFICES ASSUME \A i \in Ids : \E w \in Windows : Used(i, w) PROVE FALSE
    OBVIOUS
  <2>1. \A i \in Ids : \E w \in Windows : context[w].id = i
    BY ContextParts DEF RetiredInv, Absent, NoSwapchain, Ids
  <2> DEFINE f == [i \in Ids |-> CHOOSE w \in Windows : context[w].id = i]
  <2>2. f \in [Ids -> Windows] /\ \A i \in Ids : context[f[i]].id = i
    BY <2>1
  <2> HIDE DEF f
  <2>3. PICK i \in Ids, j \in Ids : i # j /\ f[i] = f[j]
    BY <1>1, <1>2, <2>2, FS_PigeonHole DEF n
  <2>4. QED
    BY <2>2, <2>3
<1>4. QED
  BY <1>3 DEF FreshId

LEMMA NewContext ==
  ASSUME TypeOK, RetiredInv
  PROVE  LET c == [id |-> FreshId, multiplier |-> conf.settings.multiplier,
                   performance |-> conf.settings.performance]
         IN  c \in Contexts /\ c.id \in Ids /\ c # Null
<1>1. conf.settings \in AllSettings
  BY DEF TypeOK, FileTypes
<1>2. QED
  BY <1>1, FreshIdExists, SettingsParts DEF Contexts, Null, Ids

-----------------------------------------------------------------------------
(* Types.                                                                  *)

LEMMA HooksInit == Init => TypeOK /\ RetiredInv /\ LibrariesHoldActive /\ ContextInv /\ ~ terminated
<1> SUFFICES ASSUME Init
             PROVE TypeOK /\ RetiredInv /\ LibrariesHoldActive /\ ContextInv /\ ~ terminated
  OBVIOUS
<1>1. FileTypes
  <2>1. PICK s \in Settings : /\ file = [time |-> 1, kind |-> "good", settings |-> s]
                              /\ conf = [settings |-> s, time |-> 1]
    BY DEF Init
  <2>2. s \in AllSettings
    BY SettingsParts
  <2>3. /\ file \in [time : Nat, kind : {"good", "bad", "missing"}, settings : AllSettings]
        /\ conf \in [settings : AllSettings, time : Nat] /\ conf.time <= file.time
    BY <2>1, <2>2
  <2>4. raced \in BOOLEAN /\ terminated \in BOOLEAN
    BY Zenon DEF Init
  <2>5. events \in 0..MaxEvents
    BY DEF Init
  <2>6. QED
    BY <2>3, <2>4, <2>5 DEF FileTypes
<1>2. LibraryTypes
  BY DEF Init, LibraryTypes
<1>3. WindowTypes
  BY DEF Init, WindowTypes, Contexts
<1>4. CallTypes
  BY SettingsParts DEF Init, CallTypes
<1>5. RetiredInv /\ LibrariesHoldActive
  BY DEF Init, RetiredInv, LibrariesHoldActive
<1>6. ContextInv
  BY DEF Init, ContextInv, NoSwapchain, Null, Ids
<1>7. QED
  BY <1>1, <1>2, <1>3, <1>4, <1>5, <1>6 DEF TypeOK, Init

\* The constructor goes through; what it returns is a context.
LEMMA FileStep == ASSUME TypeOK, [Next]_vars PROVE FileTypes'
<1> USE DEF TypeOK, FileTypes
<1>1. CASE WriteFile
  <2>1. events' \in 0..MaxEvents
    BY <1>1 DEF WriteFile, Event
  <2>2. file' \in [time : Nat, kind : {"good", "bad", "missing"}, settings : AllSettings]
        /\ file'.time = file.time + 1
    <3>1. ASSUME NEW s \in Settings,
                 file' = [time |-> file.time + 1, kind |-> "good", settings |-> s]
          PROVE  /\ file' \in [time : Nat, kind : {"good", "bad", "missing"},
                               settings : AllSettings]
                 /\ file'.time = file.time + 1
      BY <3>1, SettingsParts
    <3>2. ASSUME NEW k \in {"bad", "missing"},
                 file' = [file EXCEPT !.time = @ + 1, !.kind = k]
          PROVE  /\ file' \in [time : Nat, kind : {"good", "bad", "missing"},
                               settings : AllSettings]
                 /\ file'.time = file.time + 1
      <4>1. file.time \in Nat /\ file.settings \in AllSettings
        OBVIOUS
      <4>2. file' = [time |-> file.time + 1, kind |-> k, settings |-> file.settings]
        <5>1. file = [time |-> file.time, kind |-> file.kind, settings |-> file.settings]
          OBVIOUS
        <5>2. QED
          BY <3>2, <5>1
      <4>3. QED
        BY <4>1, <4>2
    <3>3. QED
      BY <1>1, <3>1, <3>2 DEF WriteFile
  <2>3. UNCHANGED <<conf, terminated>> /\ raced' \in BOOLEAN
    BY <1>1 DEF WriteFile
  <2>4. QED
    BY <2>1, <2>2, <2>3
<1>2. ASSUME NEW w \in Windows, Resize(w) \/ Create(w) \/ DestroyOld(w) \/ Close(w) \/ Present(w)
      PROVE  FileTypes'
  <2>1. CASE Resize(w) \/ Present(w)
    BY <2>1 DEF Resize, Event, Present
  <2>2. CASE Create(w) \/ DestroyOld(w) \/ Close(w)
    <3>1. UNCHANGED <<file, events, conf, raced>>
      BY <2>2 DEF Create, DestroyOld, Close
    <3>2. terminated' \in BOOLEAN
      BY <2>2 DEF Create, RetireOld, DestroyOld, Close, DeleteContext
    <3>3. QED
      BY <3>1, <3>2
  <2>3. QED
    BY <1>2, <2>1, <2>2
<1>3. CASE Check \/ Build
  BY <1>3 DEF Check, Build
<1>4. CASE Parse
  <2>1. /\ file' \in [time : Nat, kind : {"good", "bad", "missing"}, settings : AllSettings]
        /\ file'.time >= file.time
    BY <1>4, SettingsParts DEF Parse
  <2>2. QED
    BY <1>4, <2>1 DEF Parse
<1>5. CASE Stamp
  <2>1. got \in AllSettings
    BY <1>5 DEF Stamp, CallTypes
  <2>2. conf' \in [settings : AllSettings, time : Nat] /\ conf'.time <= file.time
    BY <1>5, <2>1 DEF Stamp
  <2>3. raced' \in BOOLEAN
    BY <1>5 DEF Stamp
  <2>4. QED
    BY <1>5, <2>2, <2>3 DEF Stamp
<1>6. CASE UNCHANGED vars
  BY <1>6 DEF vars
<1>7. QED
  BY <1>1, <1>2, <1>3, <1>4, <1>5, <1>6 DEF Next, Construct

LEMMA LibraryStep == ASSUME TypeOK, RetiredInv, [Next]_vars PROVE LibraryTypes'
<1> USE DEF TypeOK, LibraryTypes
<1>1. CASE UNCHANGED libraries
  BY <1>1
<1>2. ASSUME NEW c \in Contexts, DeleteContext(c) PROVE LibraryTypes'
  BY <1>2, ContextParts DEF DeleteContext
<1>3. CASE FinalizeBoth
  BY <1>3 DEF FinalizeBoth
<1>4. CASE Build
  <2> DEFINE p == conf.settings.performance
  <2>1. conf.settings \in AllSettings /\ p \in BOOLEAN /\ FreshId \in Ids
    BY FreshIdExists, SettingsParts DEF FileTypes
  <2>2. QED
    BY <1>4, <2>1 DEF Build
<1>5. CASE WriteFile \/ Check \/ UNCHANGED vars
  BY <1>1, <1>5 DEF WriteFile, Check, vars
<1>6. CASE Parse \/ Stamp
  BY <1>1, <1>3, <1>6 DEF Parse, Stamp, AfterReading
<1>7. ASSUME NEW w \in Windows, Resize(w) \/ Create(w) \/ DestroyOld(w) \/ Close(w) \/ Present(w)
      PROVE  LibraryTypes'
  <2>1. context[w] \in Contexts /\ retired[w] \in Contexts
    BY DEF WindowTypes
  <2>2. QED
    BY <1>1, <1>2, <1>7, <2>1 DEF Resize, Create, RetireOld, DestroyOld, Close, Present
<1>8. QED
  BY <1>4, <1>5, <1>6, <1>7 DEF Next, Construct

LEMMA WindowStep == ASSUME TypeOK, RetiredInv, [Next]_vars PROVE WindowTypes' /\ CallTypes'
<1> USE DEF TypeOK, WindowTypes, CallTypes
<1>1. CASE UNCHANGED <<tables, call>>
  BY <1>1
<1>2. ASSUME NEW c \in Contexts, Return(c) PROVE WindowTypes' /\ CallTypes'
  BY <1>2 DEF Return
<1>3. Null \in Contexts /\ Absent \in Contexts /\ NoSwapchain \in Contexts
  BY DEF Contexts
<1>4. CASE AfterReading
  BY <1>2, <1>3, <1>4 DEF AfterReading
<1>5. CASE Build
  BY <1>2, <1>3, <1>5, NewContext DEF Build
<1>6. CASE WriteFile \/ UNCHANGED vars
  BY <1>1, <1>6 DEF WriteFile, vars
<1>7. CASE Check
  BY <1>7 DEF Check
<1>8. CASE Parse
  <2>1. CASE AfterReading
    BY <1>4, <2>1
  <2>2. CASE /\ got' = file'.settings /\ at' = "stamp" /\ UNCHANGED <<tables, window>>
    <3>1. file'.settings \in AllSettings
      BY <1>8, FileStep DEF Next, Construct, FileTypes
    <3>2. QED
      BY <2>2, <3>1, SettingsParts
  <2>3. QED
    BY <1>8, <2>1, <2>2 DEF Parse
<1>9. CASE Stamp
  BY <1>4, <1>9 DEF Stamp
<1>10. ASSUME NEW w \in Windows PROVE /\ Resize(w) => WindowTypes' /\ CallTypes'
                                      /\ DestroyOld(w) => WindowTypes' /\ CallTypes'
                                      /\ Close(w) => WindowTypes' /\ CallTypes'
  BY <1>3 DEF Resize, DestroyOld, Close
<1>11. ASSUME NEW w \in Windows, Create(w) PROVE WindowTypes' /\ CallTypes'
  <2>1. conf.settings.e_present \in Modes
    BY SettingsParts DEF FileTypes
  <2>2. QED
    BY <1>3, <1>11, <2>1 DEF Create, Created, Refused, RetireOld
<1>12. ASSUME NEW w \in Windows, Present(w) PROVE WindowTypes' /\ CallTypes'
  <2>1. Result(w) \in {"ok", "outdated", "failed"}
    BY DEF Result
  <2>2. QED
    BY <1>12, <2>1 DEF Present
<1>13. QED
  BY <1>5, <1>6, <1>7, <1>8, <1>9, <1>10, <1>11, <1>12 DEF Next, Construct

LEMMA RetiredStep == ASSUME TypeOK, RetiredInv, [Next]_vars PROVE RetiredInv'
<1> USE DEF TypeOK, WindowTypes, CallTypes, RetiredInv
<1>1. CASE Parse \/ Stamp \/ Build \/ Check
  BY <1>1 DEF Parse, Stamp, Build, Check, AfterReading, Return
<1>2. CASE WriteFile \/ UNCHANGED vars
  BY <1>2 DEF WriteFile, vars
<1>3. ASSUME NEW w \in Windows, Resize(w) \/ Create(w) \/ DestroyOld(w) \/ Close(w) \/ Present(w)
      PROVE  RetiredInv'
  BY <1>3 DEF Resize, Create, Created, Refused, RetireOld, DestroyOld, Close, Present
<1>4. QED
  BY <1>1, <1>2, <1>3 DEF Next, Construct

-----------------------------------------------------------------------------
(* Libraries.                                                              *)

LEMMA ActiveStep ==
  ASSUME TypeOK, LibrariesHoldActive, [Next]_vars PROVE LibrariesHoldActive'
<1> USE DEF TypeOK, LibraryTypes, LibrariesHoldActive
<1>1. CASE UNCHANGED <<libraries, conf>>
  BY <1>1
<1>2. ASSUME NEW c \in Contexts, DeleteContext(c), UNCHANGED conf PROVE LibrariesHoldActive'
  BY <1>2, ContextParts DEF DeleteContext
<1>3. CASE FinalizeBoth
  BY <1>3 DEF FinalizeBoth
<1>4. CASE Build
  <2> DEFINE s == conf.settings
  <2>1. s \in AllSettings /\ s.performance \in BOOLEAN /\ s # NoSettings
    BY SettingsParts DEF FileTypes
  <2>2. library' \in {library, [library EXCEPT ![s.performance] = IF @ = NoSettings THEN s ELSE @]}
        /\ UNCHANGED conf
    BY <1>4 DEF Build
  <2>3. \A q \in BOOLEAN : library'[q] # NoSettings => library'[q] = s /\ s.performance = q
    BY <2>1, <2>2
  <2>4. \A q \in BOOLEAN : contexts'[q] # {} => library'[q] # NoSettings
    BY <1>4, <2>1 DEF Build
  <2>5. QED
    BY <2>2, <2>3, <2>4
<1>5. CASE WriteFile \/ Check \/ UNCHANGED vars
  BY <1>1, <1>5 DEF WriteFile, Check, vars
<1>6. CASE Parse \/ Stamp
  BY <1>1, <1>3, <1>6 DEF Parse, Stamp, AfterReading
<1>7. ASSUME NEW w \in Windows, Resize(w) \/ Create(w) \/ DestroyOld(w) \/ Close(w) \/ Present(w)
      PROVE  LibrariesHoldActive'
  <2>1. context[w] \in Contexts /\ retired[w] \in Contexts
    BY DEF WindowTypes
  <2>2. QED
    BY <1>1, <1>2, <1>7, <2>1 DEF Resize, Create, RetireOld, DestroyOld, Close, Present
<1>8. QED
  BY <1>4, <1>5, <1>6, <1>7 DEF Next, Construct

HooksInv == TypeOK /\ RetiredInv /\ LibrariesHoldActive

LEMMA HooksStep == ASSUME HooksInv, [Next]_vars PROVE HooksInv'
  BY FileStep, LibraryStep, WindowStep, RetiredStep, ActiveStep DEF HooksInv, TypeOK

LEMMA HooksAlways == Spec => []HooksInv
  BY HooksInit, HooksStep, PTL DEF Spec, HooksInv

\* The variables keep their types, for any windows: there is always an
\* identifier left for a new context, and nothing half-read stays behind.
THEOREM HookTypes == Spec => []TypeOK
<1>1. HooksInv => TypeOK
  BY DEF HooksInv
<1>2. QED
  BY <1>1, HooksAlways, PTL

\* Although initialize does nothing in a library that is initialized, no
\* library runs with settings that are not the active ones: every reading of
\* the file finalizes both.
THEOREM LibrariesFollowConf == Spec => []LibrariesHoldActive
<1>1. HooksInv => LibrariesHoldActive
  BY DEF HooksInv
<1>2. QED
  BY <1>1, HooksAlways, PTL

-----------------------------------------------------------------------------
(* One window.                                                             *)

Quiet == ~ terminated

LEMMA DeletesKnown ==
  ASSUME TypeOK, RetiredInv, ContextInv, Quiet, NEW w \in Windows,
         NEW c \in {context[w], retired[w]}, DeleteContext(c)
  PROVE  Quiet'
<1>1. context[w] \in Contexts /\ retired[w] \in {Absent, NoSwapchain}
  BY DEF TypeOK, WindowTypes, RetiredInv
<1>2. CASE c = context[w]
  BY <1>1, <1>2, ContextParts DEF DeleteContext, ContextInv, Quiet
<1>3. CASE c = retired[w]
  <2>1. c.id = -1 \/ c.id = -2
    BY <1>1, <1>3 DEF Absent, NoSwapchain
  <2>2. ~ (c.id > 0)
    BY <2>1
  <2>3. QED
    BY <2>2 DEF DeleteContext, Quiet
<1>4. QED
  BY <1>2, <1>3

\* A context is created only where there is none, and the configuration
\* changes only then.
LEMMA ContextStep ==
  ASSUME OneWindow, HooksInv, ContextInv, Quiet, [Next]_vars
  PROVE  ContextInv' /\ Quiet'
<1> USE DEF HooksInv, TypeOK, WindowTypes, CallTypes, RetiredInv
<1>1. \A w \in Windows : w = window
  BY DEF OneWindow
<1>2. /\ Null.id \notin Ids /\ Absent.id \notin Ids /\ NoSwapchain.id \notin Ids
      /\ Absent # Null /\ NoSwapchain # Null
  <2>1. Null \in Contexts /\ Absent \in Contexts /\ NoSwapchain \in Contexts
    BY DEF Contexts
  <2>2. QED
    BY <2>1, ContextParts DEF Null, Absent, NoSwapchain
<1>3. CASE UNCHANGED <<context, contexts, conf, terminated>>
  BY <1>3 DEF ContextInv, Quiet
<1>4. CASE /\ context' = [context EXCEPT ![window] = context'[window]]
           /\ context'[window] \in {Absent, NoSwapchain} /\ UNCHANGED terminated
  BY <1>1, <1>2, <1>4 DEF ContextInv, Quiet
<1>5. ASSUME at # "idle", AfterReading, UNCHANGED terminated PROVE ContextInv' /\ Quiet'
  <2>1. CASE conf'.settings.multiplier <= 1 /\ Return(Null)
    <3>1. \A w \in Windows : context'[w] = Null
      BY <1>1, <2>1 DEF Return
    <3>2. QED
      BY <1>2, <1>5, <2>1, <3>1 DEF ContextInv, Quiet
  <2>2. CASE UNCHANGED tables
    BY <1>1, <1>2, <1>5, <2>2 DEF ContextInv, Quiet
  <2>3. QED
    BY <1>5, <2>1, <2>2 DEF AfterReading
<1>6. CASE Build
  <2> DEFINE s == conf.settings
             c == [id |-> FreshId, multiplier |-> s.multiplier,
                   performance |-> s.performance]
  <2>1. UNCHANGED <<conf, terminated>> /\ s.performance \in BOOLEAN
    BY <1>6, SettingsParts DEF Build, FileTypes
  <2>2. CASE Return(Absent)
    BY <1>4, <2>1, <2>2 DEF Return
  <2>3. CASE /\ contexts' = [contexts EXCEPT ![s.performance] = @ \union {FreshId}]
             /\ Return(c)
    <3>1. c \in Contexts /\ c.id \in Ids /\ c # Null
      BY NewContext
    <3>2. \A w \in Windows : context'[w] = c
      BY <1>1, <2>3 DEF Return
    <3>3. FreshId \in contexts'[s.performance]
      BY <2>1, <2>3 DEF LibraryTypes
    <3>4. QED
      BY <2>1, <3>1, <3>2, <3>3 DEF ContextInv, Quiet
  <2>4. QED
    BY <1>6, <2>2, <2>3 DEF Build
<1>7. CASE Parse
  <2>1. CASE AfterReading
    BY <1>5, <1>7, <2>1 DEF Parse
  <2>2. CASE UNCHANGED <<conf, libraries, tables>>
    BY <1>3, <1>7, <2>2 DEF Parse
  <2>3. QED
    BY <1>7, <2>1, <2>2 DEF Parse
<1>8. CASE Stamp
  BY <1>5, <1>8 DEF Stamp
<1>9. CASE WriteFile \/ Check \/ UNCHANGED vars
  BY <1>3, <1>9 DEF WriteFile, Check, vars
<1>10. ASSUME NEW w \in Windows, Resize(w) \/ Present(w) PROVE ContextInv' /\ Quiet'
  BY <1>3, <1>10 DEF Resize, Present
<1>11. ASSUME NEW w \in Windows, Create(w) \/ Close(w) PROVE ContextInv' /\ Quiet'
  <2>1. DeleteContext(context[w])
    BY <1>11 DEF Create, RetireOld, Close
  <2>2. Quiet'
    BY <2>1, DeletesKnown
  <2>3. \A u \in Windows : context'[u] \in {Absent, NoSwapchain}
    BY <1>1, <1>11 DEF Create, Created, Refused, Close
  <2>4. QED
    BY <1>2, <2>2, <2>3 DEF ContextInv
<1>12. ASSUME NEW w \in Windows, DestroyOld(w) PROVE ContextInv' /\ Quiet'
  <2>1. DeleteContext(retired[w]) /\ UNCHANGED <<context, conf>>
    BY <1>12 DEF DestroyOld
  <2>2. Quiet'
    BY <2>1, DeletesKnown
  <2>3. retired[w].id \notin Ids
    BY <1>2
  <2>4. \A p \in BOOLEAN : \A i \in Ids : i \in contexts[p] => i \in contexts'[p]
    BY <2>1, <2>3 DEF DeleteContext, LibraryTypes
  <2>5. \A u \in Windows : context[u].performance \in BOOLEAN
    BY ContextParts
  <2>6. QED
    BY <2>1, <2>2, <2>4, <2>5 DEF ContextInv
<1>13. QED
  BY <1>6, <1>7, <1>8, <1>9, <1>10, <1>11, <1>12 DEF Next, Construct

LEMMA OneWindowAlways == ASSUME OneWindow PROVE Spec => [](HooksInv /\ ContextInv /\ Quiet)
<1>1. Init => HooksInv /\ ContextInv /\ Quiet
  BY HooksInit DEF HooksInv, Quiet
<1>2. (HooksInv /\ ContextInv /\ Quiet) /\ [Next]_vars => (HooksInv /\ ContextInv /\ Quiet)'
  BY HooksStep, ContextStep
<1>3. QED
  BY <1>1, <1>2, PTL DEF Spec

\* An application with one window generates with the active settings: however
\* the file is rewritten, broken or deleted, and whichever call of the
\* constructor fails, a present that generates has its context in a library
\* initialized for the configuration it compares itself with.
THEOREM PresentsFindTheirContext == ASSUME OneWindow PROVE Spec => []GeneratesOwnSettings
<1>1. HooksInv /\ ContextInv => GeneratesOwnSettings
  <2> SUFFICES ASSUME HooksInv, ContextInv, NEW w \in Windows, Generates(w) PROVE Works(w)
    BY DEF GeneratesOwnSettings
  <2>1. /\ context[w] \notin {Null, Absent, NoSwapchain} /\ context[w] \in Contexts
        /\ conf.settings \in AllSettings
    BY SettingsParts DEF Generates, Open, ContextInv, HooksInv, TypeOK, WindowTypes, FileTypes
  <2>2. context[w].id \in Ids
    BY <2>1, ContextParts
  <2>3. /\ context[w].id \in contexts[conf.settings.performance]
        /\ context[w].multiplier = conf.settings.multiplier
    BY <2>2 DEF ContextInv
  <2>4. library[conf.settings.performance] = conf.settings
    BY <2>1, <2>3, SettingsParts DEF HooksInv, LibrariesHoldActive
  <2>5. QED
    BY <2>3, <2>4 DEF Works
<1>2. QED
  BY <1>1, OneWindowAlways, PTL

\* No deleter of an application with one window throws: the context of a
\* swapchain is deleted before the new one's constructor finalizes its library.
THEOREM DeletersFindTheirContext == ASSUME OneWindow PROVE Spec => []NoTerminate
<1>1. Quiet => NoTerminate
  BY DEF Quiet, NoTerminate
<1>2. QED
  BY <1>1, OneWindowAlways, PTL
=============================================================================
