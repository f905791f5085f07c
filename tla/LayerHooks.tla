------------------------------- MODULE LayerHooks -------------------------------
(***************************************************************************)
(* The Vulkan layer: the hooks of swapchain creation, presentation and     *)
(* destruction, the context each swapchain gets, and the configuration     *)
(* file, which may be rewritten, broken or deleted at any time.            *)
(*                                                                         *)
(* A present compares the file's time with that of the active              *)
(* configuration and answers "out of date" when they differ, so that the   *)
(* application recreates its swapchain; the new context's constructor then *)
(* reads the file again and finalizes both frame generation libraries.     *)
(*                                                                         *)
(* The hooks run on the application's threads, without a lock; here one    *)
(* thread calls them.  Vulkan calls that fail do so in Build, where the     *)
(* hook catches them all.  The copies of a present are SwapchainBlit's kind *)
(* of work and are left out: a present shows generated frames or not.      *)
(***************************************************************************)
EXTENDS Integers, FiniteSets

CONSTANTS
  Windows,    \* surfaces of the application
  Settings,   \* what the file may hold for this process
  Default,    \* what updateConfig writes when there is no file
  MaxEvents   \* bound: rewrites of the file and resizes of a surface

Modes == {"fifo", "mailbox", "immediate"}
AllSettings == [multiplier : Nat \ {0}, performance : BOOLEAN, e_present : Modes]

ASSUME SettingsAssumption ==
  /\ Settings \subseteq AllSettings
  /\ Default \in Settings
ASSUME WindowsAssumption == IsFiniteSet(Windows)
ASSUME EventsAssumption == MaxEvents \in Nat

NoSettings == [multiplier |-> 0, performance |-> FALSE, e_present |-> "none"]
Ids == 1..(2 * Cardinality(Windows))
\* In the map swapchains without a library context; not in that map; no such
\* swapchain.
Null == [id |-> 0, multiplier |-> 1, performance |-> FALSE]
Absent == [id |-> -1, multiplier |-> 0, performance |-> FALSE]
NoSwapchain == [id |-> -2, multiplier |-> 0, performance |-> FALSE]

VARIABLES
  file,       \* time, kind "good", "bad" or "missing", settings
  events,     \* rewrites and resizes so far
  conf,       \* activeConf: settings and timestamp
  raced,      \* history: the active timestamp belongs to a later content
  library,    \* per library, performance or not: settings it was initialized with
  contexts,   \* per library: ids of its contexts
  present,    \* swapchainToPresent
  context,    \* swapchains
  told,       \* per window: the last result, "ok", "outdated" or "failed"
  retired,    \* per window: the context of the old swapchain, until destroyed
  outdated,   \* per window: the surface has another size than the swapchain
  at, window, got, \* myvkCreateSwapchainKHR: where it is, for whom, what it parsed
  terminated  \* history: an exception left a destructor and ended the process

fileVars == <<file, events>>
libraries == <<library, contexts>>
tables == <<present, context, told, retired, outdated>>
call == <<at, window, got>>
vars == <<fileVars, conf, raced, libraries, tables, call, terminated>>

\* The layer has read the file when it was loaded.
Init ==
  /\ \E s \in Settings : /\ file = [time |-> 1, kind |-> "good", settings |-> s]
                         /\ conf = [settings |-> s, time |-> 1]
  /\ events = 0 /\ raced = FALSE
  /\ library = [p \in BOOLEAN |-> NoSettings] /\ contexts = [p \in BOOLEAN |-> {}]
  /\ present = [w \in Windows |-> "none"] /\ told = [w \in Windows |-> "ok"]
  /\ context = [w \in Windows |-> NoSwapchain]
  /\ retired = [w \in Windows |-> NoSwapchain]
  /\ outdated = [w \in Windows |-> FALSE]
  /\ at = "idle" /\ window \in Windows /\ got = NoSettings
  /\ terminated = FALSE

Open(w) == context[w] # NoSwapchain

-----------------------------------------------------------------------------
(* The file and the surfaces.                                              *)

Event == events < MaxEvents /\ events' = events + 1

WriteFile ==
  /\ Event
  /\ \/ \E s \in Settings : file' = [time |-> file.time + 1, kind |-> "good", settings |-> s]
     \/ \E k \in {"bad", "missing"} : file' = [file EXCEPT !.time = @ + 1, !.kind = k]
  /\ raced' = FALSE
  /\ UNCHANGED <<conf, libraries, tables, call, terminated>>

Resize(w) ==
  /\ Event /\ Open(w)
  /\ outdated' = [outdated EXCEPT ![w] = TRUE]
  /\ UNCHANGED <<file, conf, raced, libraries, present, context, told, retired,
                 call, terminated>>

\* Mutant: only the existence of the file is looked at.
Exists == file.kind # "missing"
\* The active configuration is still the file's.
Fresh == file.kind # "missing" /\ conf.time = file.time

-----------------------------------------------------------------------------
(* Creating and destroying swapchains.                                     *)

\* The deleter of lsfgCtxId: deleteContext throws for an id it does not know.
DeleteContext(c) ==
  /\ contexts' = [contexts EXCEPT ![c.performance] = @ \ {c.id}]
  /\ terminated' = (terminated \/ (c.id > 0 /\ c.id \notin contexts[c.performance]))
  /\ UNCHANGED library

\* oldSwapchain leaves the tables before anything is created; the application
\* destroys it some time later.  Mutant: the table keeps it until then.
KeepOld(w) ==
  /\ retired' = [retired EXCEPT ![w] = context[w]]
  /\ UNCHANGED <<libraries, terminated>>
RetireOld(w) ==
  /\ retired' = [retired EXCEPT ![w] = IF Open(w) THEN Absent ELSE NoSwapchain]
  /\ DeleteContext(context[w])

\* A first swapchain, or a new one for a surface that has one: when told so,
\* or because the application wants to.  The present mode is the one known
\* now, before the file is read again.
Created(w) ==
  /\ present' = [present EXCEPT ![w] = conf.settings.e_present]
  /\ context' = [context EXCEPT ![w] = Absent]
  /\ at' = "check" /\ window' = w
  /\ UNCHANGED told

\* The driver refuses it: the old one is retired all the same.
Refused(w) ==
  /\ present' = [present EXCEPT ![w] = "none"]
  /\ context' = [context EXCEPT ![w] = NoSwapchain]
  /\ told' = [told EXCEPT ![w] = "ok"]
  /\ UNCHANGED <<at, window>>

Create(w) ==
  /\ at = "idle" /\ retired[w] = NoSwapchain
  /\ RetireOld(w)
  /\ Created(w) \/ Refused(w)
  /\ outdated' = [outdated EXCEPT ![w] = FALSE]
  /\ UNCHANGED <<fileVars, conf, raced, got>>

DestroyOld(w) ==
  /\ at = "idle" /\ retired[w] # NoSwapchain
  /\ DeleteContext(retired[w])
  /\ retired' = [retired EXCEPT ![w] = NoSwapchain]
  /\ UNCHANGED <<fileVars, conf, raced, present, context, told, outdated, call>>

Close(w) ==
  /\ at = "idle" /\ Open(w)
  /\ DeleteContext(context[w])
  /\ context' = [context EXCEPT ![w] = NoSwapchain]
  /\ present' = [present EXCEPT ![w] = "none"]
  /\ told' = [told EXCEPT ![w] = "ok"]
  /\ outdated' = [outdated EXCEPT ![w] = FALSE]
  /\ UNCHANGED <<fileVars, conf, raced, retired, call>>

-----------------------------------------------------------------------------
(* The constructor of LsContext.                                           *)

Check ==
  /\ at = "check"
  /\ at' = IF Fresh THEN "build" ELSE "parse"
  /\ UNCHANGED <<fileVars, conf, raced, libraries, tables, window, got, terminated>>

\* Mutant: the performance library is left as it is.
FinalizeOne ==
  /\ library' = [library EXCEPT ![FALSE] = NoSettings]
  /\ contexts' = [contexts EXCEPT ![FALSE] = {}]
FinalizeBoth ==
  /\ library' = [p \in BOOLEAN |-> NoSettings]
  /\ contexts' = [p \in BOOLEAN |-> {}]

\* Mutant: what was parsed stays behind.
ReturnEarly(c) ==
  /\ context' = [context EXCEPT ![window] = c]
  /\ told' = [told EXCEPT ![window] = "ok"] /\ at' = "idle"
  /\ UNCHANGED <<present, retired, outdated, window, got>>
Return(c) ==
  /\ context' = [context EXCEPT ![window] = c]
  /\ told' = [told EXCEPT ![window] = "ok"]
  /\ at' = "idle" /\ got' = NoSettings
  /\ UNCHANGED <<present, retired, outdated, window>>

\* Whether or not the file could be read; a multiplier of one ends it here.
AfterReading ==
  /\ FinalizeBoth
  /\ \/ conf'.settings.multiplier <= 1 /\ Return(Null)
     \/ /\ conf'.settings.multiplier > 1
        /\ at' = "build" /\ got' = NoSettings
        /\ UNCHANGED <<tables, window>>

\* A missing file is written with the defaults first.
Parse ==
  /\ at = "parse"
  /\ \/ /\ file.kind = "bad"
        /\ UNCHANGED <<file, conf>>
        /\ AfterReading
     \/ /\ file.kind # "bad"
        /\ file' = IF file.kind = "good" THEN file
                   ELSE [time |-> file.time + 1, kind |-> "good", settings |-> Default]
        /\ got' = file'.settings
        /\ at' = "stamp"
        /\ UNCHANGED <<conf, libraries, tables, window>>
  /\ UNCHANGED <<events, raced, terminated>>

\* The time is read after the content.
Stamp ==
  /\ at = "stamp"
  /\ \/ file.kind = "missing" /\ UNCHANGED <<conf, raced>>
     \/ /\ file.kind # "missing"
        /\ conf' = [settings |-> got, time |-> file.time]
        /\ raced' = (file.kind = "bad" \/ file.settings # got)
  /\ AfterReading
  /\ UNCHANGED <<fileVars, terminated>>

FreshId == CHOOSE i \in Ids : \A w \in Windows : i \notin {context[w].id, retired[w].id}

\* initialize does nothing in a library that is initialized.  Any call may
\* throw: the hook answers that the swapchain is there, without a context.
Build ==
  LET s == conf.settings
      p == s.performance
      ready == [library EXCEPT ![p] = IF @ = NoSettings THEN s ELSE @] IN
  /\ at = "build"
  /\ \/ /\ library' = ready
        /\ contexts' = [contexts EXCEPT ![p] = @ \union {FreshId}]
        /\ Return([id |-> FreshId, multiplier |-> s.multiplier, performance |-> p])
     \/ /\ library' \in {library, ready} /\ UNCHANGED contexts
        /\ Return(Absent)
  /\ UNCHANGED <<fileVars, conf, raced, terminated>>

-----------------------------------------------------------------------------
(* myvkQueuePresentKHR.                                                    *)

\* presentContext finds the context in a library that was set up for it, and
\* there are as many outputs as the multiplier now asks for.
Works(w) ==
  LET p == conf.settings.performance IN
  /\ context[w].id \in contexts[p]
  /\ context[w].multiplier = conf.settings.multiplier
  /\ library[p].multiplier = conf.settings.multiplier

Valid(w) == Fresh /\ present[w] = conf.settings.e_present
Generates(w) ==
  Open(w) /\ context[w] # Absent /\ Valid(w) /\ conf.settings.multiplier > 1

\* An exception in the context's present, an outdated surface's included, is
\* a failed initialization.
Result(w) ==
  CASE Generates(w) -> IF Works(w) /\ ~ outdated[w] THEN "ok" ELSE "failed"
    [] ~ Generates(w) /\ context[w] # Absent /\ ~ Valid(w) -> "outdated"
    [] OTHER -> IF outdated[w] THEN "outdated" ELSE "ok"

\* The application may present again whatever it was told.
Present(w) ==
  /\ at = "idle" /\ Open(w)
  /\ told' = [told EXCEPT ![w] = Result(w)]
  /\ UNCHANGED <<fileVars, conf, raced, libraries, present, context, retired,
                 outdated, call, terminated>>

-----------------------------------------------------------------------------
Construct == Check \/ Parse \/ Stamp \/ Build
Next ==
  \/ WriteFile \/ Construct
  \/ \E w \in Windows : Resize(w) \/ Create(w) \/ DestroyOld(w) \/ Close(w) \/ Present(w)

\* The application goes on presenting, recreates a swapchain it was told is
\* out of date, which a failed initialization does not say, and destroys the one
\* that was retired.
Fairness ==
  /\ WF_vars(Construct)
  /\ \A w \in Windows :
       /\ WF_vars(Present(w))
       /\ WF_vars(told[w] = "outdated" /\ Create(w))
       /\ WF_vars(DestroyOld(w))

Spec == Init /\ [][Next]_vars /\ Fairness

-----------------------------------------------------------------------------
Contexts == {Null, Absent, NoSwapchain} \union
            [id : Ids, multiplier : Nat \ {0}, performance : BOOLEAN]

FileTypes ==
  /\ file \in [time : Nat, kind : {"good", "bad", "missing"}, settings : AllSettings]
  /\ events \in 0..MaxEvents
  /\ conf \in [settings : AllSettings, time : Nat] /\ conf.time <= file.time
  /\ raced \in BOOLEAN /\ terminated \in BOOLEAN
LibraryTypes ==
  /\ library \in [BOOLEAN -> AllSettings \union {NoSettings}]
  /\ contexts \in [BOOLEAN -> SUBSET Ids]
WindowTypes ==
  /\ present \in [Windows -> Modes \union {"none"}]
  /\ context \in [Windows -> Contexts] /\ retired \in [Windows -> Contexts]
  /\ told \in [Windows -> {"ok", "outdated", "failed"}]
  /\ outdated \in [Windows -> BOOLEAN]
CallTypes ==
  /\ at \in {"idle", "check", "parse", "stamp", "build"} /\ window \in Windows
  /\ got \in AllSettings \union {NoSettings} /\ (got # NoSettings <=> at = "stamp")

\* Type correctness; outside the constructor nothing half-read is left.
TypeOK == FileTypes /\ LibraryTypes /\ WindowTypes /\ CallTypes

\* A present that takes the generating path finds what it needs: a context
\* that its library still knows, built and set up for the multiplier and the
\* library the active configuration names.  One window: see the README.
GeneratesOwnSettings ==
  at = "idle" => \A w \in Windows : Generates(w) => Works(w)

\* No context is deleted after its library was finalized under it: the
\* deleter's exception would end the process.  One window: see the README.
NoTerminate == ~ terminated

\* However the file is rewritten, broken or deleted, once it can be read it
\* governs: its settings are the active ones, an open swapchain presents under
\* its present mode, and no present is refused, except as a failed initialization
\* when the surface itself is outdated.  Excepted: a write between the reading
\* of the content and that of the time, and a swapchain whose context could not
\* be built.
Governs(w) ==
  /\ at = "idle" /\ Fresh
  /\ conf.settings = file.settings /\ present[w] = file.settings.e_present
  /\ told[w] = "ok" \/ (told[w] = "failed" /\ outdated[w])

FileApplied ==
  \A w \in Windows :
    []<>(Open(w) /\ ~ raced /\ file.kind = "good" /\ ~ (at = "idle" /\ context[w] = Absent)
         => Governs(w))

\* Does not hold: a present that generates reports an outdated surface as a
\* failed initialization.
ResizeIsOutdated == [][\A w \in Windows : told'[w] # "failed"]_vars
=============================================================================
