--------------------------- MODULE FramegenSession ---------------------------
(***************************************************************************)
(* The framegen library and the context it serves, over the sessions of    *)
(* the render loop: FramegenLibrary and FramegenContext composed.          *)
(*                                                                         *)
(* A session that got a context copies captures and presents them until    *)
(* the worker is joined.  Nothing is waited for after a present that threw, *)
(* so the GPU may be at work when the session ends; deleteContext and      *)
(* finalize wait for the device of the copy they act on.                   *)
(***************************************************************************)
EXTENDS FramegenContext

CONSTANTS
  Configs, NoConfig, MaxSessions,
  LibraryEnv  \* failures of the library a run enables

VARIABLES instance, device, config, contexts, session, control, model, wanted,
          initOk, ctx, failed

Library == INSTANCE FramegenLibrary WITH pc <- control, Env <- LibraryEnv

ASSUME ConfigsAssumption  == NoConfig \notin Configs
ASSUME SessionsAssumption == MaxSessions \in Nat
ASSUME LibraryAssumption  == LibraryEnv \subseteq Library!EnvEvents

libraryVars == <<instance, device, config, contexts, session, control, model,
                 wanted, initOk, ctx, failed>>
sessionVars == <<vars, libraryVars>>

SessionInit == Init /\ Library!Init

-----------------------------------------------------------------------------

\* A new context and a new loop: Init of FramegenContext, once more.
FreshContext ==
  /\ captured' = 0 /\ slots' = NoSlots /\ presentsDone' = 0
  /\ frameIdx' = 0 /\ pc' = "idle" /\ pass' = 1
  /\ shouldWait' = [r \in Ring |-> FALSE] /\ fences' = NoFences
  /\ queue' = <<>> /\ features' = NoFeatures

\* initRenderLoop: the library, then the context, new with its frames.
Initialise ==
  \/ /\ \/ \E m \in Library!Models, c \in Configs : Library!StartSession(m, c)
        \/ Library!ReturnsEarly \/ Library!MakeInstance \/ Library!MakeDevice
        \/ Library!MakePools \/ Library!InitThrows
     /\ UNCHANGED vars
  \/ Library!CreateContext /\ FreshContext

\* The worker, while it has a context.
Work ==
  /\ control = "running" /\ ctx
  /\ CopyBegin \/ CopyEnd \/ Present \/ WaitIdle
  /\ UNCHANGED libraryVars

\* shutdownRenderLoop: the worker is joined, then deleteContext waits for the
\* device.  Mutant: it does not.
DeleteAtOnce == TRUE
DeleteWaits == DeviceIdle

Shutdown ==
  \/ /\ pc = "idle" /\ (ctx => DeleteWaits)
     /\ Library!DeleteContext
     /\ UNCHANGED vars
  \/ Library!Finalize /\ UNCHANGED vars

Gpu == Execute /\ UNCHANGED libraryVars

SessionNext == Initialise \/ Work \/ Shutdown \/ Gpu

\* The worker goes on with a capture it began, and the GPU with what was
\* submitted.
SessionSpec ==
  /\ SessionInit /\ [][SessionNext]_sessionVars
  /\ WF_sessionVars(Work /\ ~CopyBegin) /\ WF_sessionVars(Gpu)

-----------------------------------------------------------------------------
(* Correctness.                                                            *)

SessionTypeOK == TypeOK /\ Library!TypeOK

\* A session interpolates with its own settings, in either copy of the library,
\* whatever failed before.
OwnSettings == Library!OwnSettings

\* The GPU never works for a context that is gone, on a device that is gone, or
\* for another session: over presents that threw, shutdowns and new sessions,
\* submitted work is always that of the context which exists.
WorkHasContext ==
  queue # <<>> => /\ ctx /\ contexts[model] = {session} /\ device[model] = "ready"
                  /\ \A m \in Library!Models \ {model} : contexts[m] = {}
=============================================================================
