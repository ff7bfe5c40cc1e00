------------------------------ MODULE WatchLoop ------------------------------
(***************************************************************************)
(* Loop.Run: events of a channel are debounced per path and dispatched     *)
(* when their path has been quiet.  A path's deadline is that of its last  *)
(* event as received; events carry the time they were made, and may arrive *)
(* late and out of order.  While a batch is dispatched no event is read.   *)
(***************************************************************************)
EXTENDS Naturals, FiniteSets

CONSTANTS
    Paths,          \* ordered: paths are dispatched in their order
    Debounce,       \* 1 stands for the default
    MaxPending,
    MaxTime, MaxEvents   \* bounds

ASSUME LoopAssumption == Paths \subseteq Nat \ {0} /\ Debounce \in Nat \ {0} /\ MaxPending \in Nat \ {0}

NoDeadline == 0     \* real ones are at least Debounce
Empty == 0          \* the empty path

VARIABLES
    clock,
    events,         \* in the channel: <<path, made>>, any order
    sent,
    channelOpen,
    pending,        \* a deadline for each path, or NoDeadline
    batch,          \* the paths taken from pending by the current tick
    looping,
    owed            \* history: paths with an event received and not dispatched

loopVars == <<clock, events, sent, channelOpen, pending, batch, looping, owed>>

Waiting == {p \in Paths : pending[p] # NoDeadline}
Due == {p \in Waiting : pending[p] <= clock}

LoopInit ==
    /\ clock = 0 /\ events = {} /\ sent = 0 /\ channelOpen = TRUE
    /\ pending = [p \in Paths |-> NoDeadline] /\ batch = {} /\ looping = TRUE /\ owed = {}

Passes ==
    /\ clock < MaxTime /\ clock' = clock + 1
    /\ UNCHANGED <<events, sent, channelOpen, pending, batch, looping, owed>>

(* The producer of events; those whose deadline lies behind the bound on   *)
(* time are left out.                                                      *)
Made(p) ==
    /\ channelOpen /\ sent < MaxEvents /\ clock + Debounce <= MaxTime /\ sent' = sent + 1 /\ events' = events \cup {<<p, clock>>}
    /\ UNCHANGED <<clock, channelOpen, pending, batch, looping, owed>>

Closes ==
    /\ channelOpen /\ channelOpen' = FALSE
    /\ UNCHANGED <<clock, events, sent, pending, batch, looping, owed>>

Selecting == looping /\ batch = {}
Ends == looping' = FALSE /\ UNCHANGED <<clock, channelOpen, sent, pending, batch, owed>>

(* A full map takes only events of paths it holds.                         *)
Full(p) == Cardinality(Waiting) >= MaxPending /\ pending[p] = NoDeadline

ReceiveEvent(p, made) ==
    /\ Selecting /\ <<p, made>> \in events /\ events' = events \ {<<p, made>>} /\ ~Full(p)
    /\ pending' = [pending EXCEPT ![p] = made + Debounce]
    /\ owed' = owed \cup {p}
    /\ UNCHANGED <<clock, sent, channelOpen, batch, looping>>

(* An event without a path                                                 *)
Skip(made) ==
    /\ Selecting /\ <<Empty, made>> \in events /\ events' = events \ {<<Empty, made>>}
    /\ UNCHANGED <<clock, sent, channelOpen, pending, batch, looping, owed>>

(* ErrEventQueueFull                                                       *)
Overflow(p, made) ==
    /\ Selecting /\ <<p, made>> \in events /\ events' = events \ {<<p, made>>} /\ Full(p)
    /\ Ends

(* The closed channel is read, whatever is pending.                        *)
ChannelClosed == Selecting /\ ~channelOpen /\ events = {} /\ Ends /\ UNCHANGED events

LoopCancelled == Selecting /\ Ends /\ UNCHANGED events

\* Mutant: every pending path is cleared with the ones that are due.
TickClearing ==
    /\ Selecting /\ Due # {}
    /\ batch' = Due /\ pending' = [p \in Paths |-> NoDeadline]
    /\ UNCHANGED <<clock, events, sent, channelOpen, looping, owed>>

Tick ==
    /\ Selecting /\ Due # {}
    /\ batch' = Due /\ pending' = [p \in Paths |-> IF p \in Due THEN NoDeadline ELSE pending[p]]
    /\ UNCHANGED <<clock, events, sent, channelOpen, looping, owed>>

First(p) == p \in batch /\ \A q \in batch : p <= q

Dispatch(p) ==
    /\ looping /\ First(p) /\ batch' = batch \ {p} /\ owed' = owed \ {p}
    /\ UNCHANGED <<clock, events, sent, channelOpen, pending, looping>>

DispatchError(p) ==
    /\ looping /\ First(p) /\ Ends /\ UNCHANGED events

LoopNext ==
    \/ Passes \/ Closes \/ ChannelClosed \/ LoopCancelled \/ Tick
    \/ \E p \in Paths \cup {Empty} : Made(p)
    \/ \E p \in Paths : Dispatch(p) \/ DispatchError(p)
    \/ \E made \in 0 .. MaxTime : Skip(made) \/ \E p \in Paths : ReceiveEvent(p, made) \/ Overflow(p, made)

LoopSpec == LoopInit /\ [][LoopNext]_loopVars

(* Time passes; select takes a timer that has fired sooner or later, even  *)
(* if events keep coming.                                                  *)
LoopFairSpec == LoopSpec /\ WF_loopVars(Passes) /\ SF_loopVars(Tick) /\ WF_loopVars(\E p \in Paths : Dispatch(p))

-----------------------------------------------------------------------------
(* Every path with an event received is dispatched, unless the loop ends.  *)
EventsDispatched == \A p \in Paths : p \in owed ~> p \notin owed \/ ~looping
=============================================================================
