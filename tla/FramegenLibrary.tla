--------------------------- MODULE FramegenLibrary ---------------------------
(***************************************************************************)
(* The life of the framegen library (lsfg.cpp) across sessions of the      *)
(* render loop.                                                            *)
(*                                                                         *)
(* The library keeps an instance, a device and its contexts in globals;    *)
(* there are two copies of it, for the quality and the performance model.  *)
(* The render loop initialises the copy the settings ask for when a        *)
(* session starts, and deletes its context and finalizes that copy when    *)
(* the session ends, if the initialisation succeeded.  Every step of an    *)
(* initialisation may throw and leaves what was built so far.              *)
(***************************************************************************)
EXTENDS Naturals

CONSTANTS
  Configs,      \* flow scale and generation count of a session
  NoConfig,
  MaxSessions,  \* bound: sessions in a behaviour
  Env           \* environment events a run enables, a subset of EnvEvents

EnvEvents == {"instanceThrows", "deviceThrows", "poolsThrow", "contextThrows"}

Models == {"quality", "performance"}

VARIABLES
  instance,   \* per copy: whether the instance exists
  device,     \* per copy: none, partial (without pools) or ready
  config,     \* per copy: what the device was built for
  contexts,   \* per copy: the contexts that exist, by session
  session,    \* sessions started so far
  pc,         \* where the control thread is
  model,      \* g.performanceMode
  wanted,     \* the settings of the session
  initOk,     \* g.framegenInitOk
  ctx,        \* g.framegenCtxId >= 0
  failed      \* history: a call failed in this session

libVars  == <<instance, device, config, contexts>>
loopVars == <<session, model, wanted>>
vars == <<libVars, loopVars, pc, initOk, ctx, failed>>

Init ==
  /\ instance = [m \in Models |-> FALSE]
  /\ device = [m \in Models |-> "none"]
  /\ config = [m \in Models |-> NoConfig]
  /\ contexts = [m \in Models |-> {}]
  /\ session = 0 /\ pc = "idle" /\ model = "quality" /\ wanted = NoConfig
  /\ initOk = FALSE /\ ctx = FALSE /\ failed = FALSE

\* initRenderLoop up to initFramegen: the session's settings.
StartSession(m, c) ==
  /\ pc = "idle" /\ session < MaxSessions
  /\ session' = session + 1
  /\ model' = m /\ wanted' = c /\ failed' = FALSE
  /\ pc' = "instance"
  /\ UNCHANGED <<libVars, initOk, ctx>>

-----------------------------------------------------------------------------
(* initialize, and what initFramegen makes of it.                          *)

\* An initialised library is kept as it is, a half initialised one too.
Initialised(m) == instance[m] \/ device[m] # "none"

ReturnsEarly ==
  /\ pc = "instance" /\ Initialised(model)
  /\ initOk' = TRUE /\ pc' = "context"
  /\ UNCHANGED <<libVars, loopVars, ctx, failed>>

MakeInstance ==
  /\ pc = "instance" /\ ~Initialised(model)
  /\ instance' = [instance EXCEPT ![model] = TRUE]
  /\ pc' = "device"
  /\ UNCHANGED <<device, config, contexts, loopVars, initOk, ctx, failed>>

MakeDevice ==
  /\ pc = "device"
  /\ device' = [device EXCEPT ![model] = "partial"]
  /\ config' = [config EXCEPT ![model] = wanted]
  /\ contexts' = [contexts EXCEPT ![model] = {}]
  /\ pc' = "pools"
  /\ UNCHANGED <<instance, loopVars, initOk, ctx, failed>>

MakePools ==
  /\ pc = "pools"
  /\ device' = [device EXCEPT ![model] = "ready"]
  /\ initOk' = TRUE /\ pc' = "context"
  /\ UNCHANGED <<instance, config, contexts, loopVars, ctx, failed>>

\* A throw of any of the three: capture-only mode.
InitThrows ==
  /\ \/ pc = "instance" /\ ~Initialised(model) /\ "instanceThrows" \in Env
     \/ pc = "device" /\ "deviceThrows" \in Env
     \/ pc = "pools" /\ "poolsThrow" \in Env
  /\ initOk' = FALSE /\ ctx' = FALSE /\ failed' = TRUE
  /\ pc' = "running"
  /\ UNCHANGED <<libVars, loopVars>>

\* createContextFromAHB throws without a device, or for a reason of its own.
CreateContext ==
  /\ pc = "context"
  /\ \/ /\ device[model] = "ready"
        /\ contexts' = [contexts EXCEPT ![model] = @ \union {session}]
        /\ ctx' = TRUE
        /\ UNCHANGED failed
     \/ /\ device[model] # "ready" /\ ctx' = FALSE
        /\ UNCHANGED <<contexts, failed>>
     \/ /\ "contextThrows" \in Env
        /\ ctx' = FALSE /\ failed' = TRUE
        /\ UNCHANGED contexts
  /\ pc' = "running"
  /\ UNCHANGED <<instance, device, config, loopVars, initOk>>

-----------------------------------------------------------------------------
(* shutdownRenderLoop.                                                     *)

\* deleteContext throws for a context that is not there, and is ignored.
DeleteContext ==
  /\ pc = "running"
  /\ contexts' = IF ctx THEN [contexts EXCEPT ![model] = @ \ {session}] ELSE contexts
  /\ ctx' = FALSE
  /\ pc' = "finalize"
  /\ UNCHANGED <<instance, device, config, loopVars, initOk, failed>>

\* finalize does nothing unless both instance and device are there.
\* Mutant: it does nothing unless there are contexts to clear.
HasContexts(m) == contexts[m] # {}
Complete(m) == instance[m] /\ device[m] # "none"

\* Mutant: the reset of the device is forgotten.
KeepDevice == UNCHANGED device
DropDevice == device' = [device EXCEPT ![model] = "none"]
DropInstance == instance' = [instance EXCEPT ![model] = FALSE]

Finalize ==
  /\ pc = "finalize"
  /\ IF initOk /\ Complete(model)
     THEN /\ contexts' = [contexts EXCEPT ![model] = {}]
          /\ DropDevice /\ DropInstance
          /\ config' = [config EXCEPT ![model] = NoConfig]
     ELSE UNCHANGED libVars
  /\ initOk' = FALSE
  /\ pc' = "idle"
  /\ UNCHANGED <<loopVars, ctx, failed>>

Next ==
  \/ \E m \in Models, c \in Configs : StartSession(m, c)
  \/ ReturnsEarly \/ MakeInstance \/ MakeDevice \/ MakePools \/ InitThrows
  \/ CreateContext \/ DeleteContext \/ Finalize

Spec == Init /\ [][Next]_vars

-----------------------------------------------------------------------------
(* Correctness.                                                            *)

\* With the types: a device has its instance.
TypeOK ==
  /\ instance \in [Models -> BOOLEAN]
  /\ device \in [Models -> {"none", "partial", "ready"}]
  /\ \A m \in Models : device[m] # "none" => instance[m]
  /\ config \in [Models -> Configs \union {NoConfig}]
  /\ contexts \in [Models -> SUBSET (1..MaxSessions)]
  /\ session \in 0..MaxSessions
  /\ pc \in {"idle", "instance", "device", "pools", "context", "running", "finalize"}
  /\ model \in Models /\ wanted \in Configs \union {NoConfig}
  /\ initOk \in BOOLEAN /\ ctx \in BOOLEAN /\ failed \in BOOLEAN

\* A session interpolates with its own settings: the context was built on a
\* device of the settings the session was started with, not on one left by an
\* earlier session.
OwnSettings == (pc = "running" /\ ctx) => config[model] = wanted

\* A session in which no call fails gets framegen, whatever happened in the
\* sessions before.  Does not hold: README, section 6.
HealthySessionGenerates == (pc = "running" /\ ~failed) => ctx
=============================================================================
