--------------------------- MODULE TunnelRecords ----------------------------
(***************************************************************************)
(* The rows of the tunnels table of one computer, and what ends them: the  *)
(* close and reject handlers, the sweeper of expired rows, and the cleanup  *)
(* that every ProxyExchange handler runs when its stream is over, unless a  *)
(* newer stream of the computer is attached.  UpdateTunnelState is a        *)
(* transaction that reads the state and writes the next; under read         *)
(* committed the write may follow another's.  The registry's Attach and     *)
(* Detach are those of module Tunnel, seen from the rows.                   *)
(***************************************************************************)
EXTENDS Naturals, FiniteSets

CONSTANTS
    Tunnels,         \* rows
    Transitions,     \* calls of UpdateTunnelState (REST and RPC)
    Exchanges,       \* ProxyExchange handlers, one per connection
    NoExchange, NoTunnel

TunnelStates == {"none", "pending_approval", "active", "rejected", "closed"}
Open == {"pending_approval", "active"}
Ended == {"rejected", "closed"}

ASSUME TunnelRecordsAssumption ==
    /\ NoExchange \notin Exchanges
    /\ NoTunnel \notin Tunnels

VARIABLES
    tunnel,          \* the state of each row
    lapsed,          \* rows whose expires_unix has passed
    transition,      \* the calls of UpdateTunnelState
    sweep,           \* rows the sweeper has read and not yet closed
    exchange,        \* where each ProxyExchange handler is
    daemon,          \* the exchange whose stream the registry holds
    dropped,         \* rows open when the registry lost its stream (history)
    everEnded,       \* rows that were rejected or closed (history)
    excused          \* rows written after an overtaken read, or whose cleanup
                     \* failed (history)

tunnelRecordVars == <<tunnel, lapsed, transition, sweep, exchange, daemon,
                      dropped, everEnded, excused>>

IdleTransition == [pc |-> "idle", id |-> NoTunnel, from |-> "none", to |-> "none"]
DoneTransition == [IdleTransition EXCEPT !.pc = "done"]

TunnelRecordInit ==
    /\ tunnel = [t \in Tunnels |-> "none"]
    /\ lapsed = {}
    /\ transition = [c \in Transitions |-> IdleTransition]
    /\ sweep = {}
    /\ exchange = [x \in Exchanges |-> "new"]
    /\ daemon = NoExchange
    /\ dropped = {}
    /\ everEnded = {}
    /\ excused = {}

OpenTunnels == {t \in Tunnels : tunnel[t] \in Open}

(* Rows written: history of the ones that have ended. *)
Write(rows) ==
    /\ tunnel' = rows
    /\ everEnded' = everEnded \cup {t \in Tunnels : rows[t] \in Ended}

-----------------------------------------------------------------------------

(* CreateTunnel: an agent's tunnel is pending, an admin's is active.  The    *)
(* computer need not be connected.                                           *)
CreateTunnel(t) ==
    /\ tunnel[t] = "none"
    /\ \E state \in Open : Write([tunnel EXCEPT ![t] = state])
    /\ UNCHANGED <<lapsed, transition, sweep, exchange, daemon, dropped, excused>>

(* Time passes the row's expiry. *)
Lapse(t) ==
    /\ tunnel[t] # "none" /\ t \notin lapsed
    /\ lapsed' = lapsed \cup {t}
    /\ UNCHANGED <<tunnel, transition, sweep, exchange, daemon, dropped, everEnded, excused>>

ValidTransition(from, to) ==
    \/ from = "pending_approval" /\ to \in {"active", "rejected", "closed"}
    \/ from = "active" /\ to = "closed"

(* UpdateTunnelState reads the row; another transition is refused. *)
TransitionReads(c) ==
    /\ transition[c].pc = "idle"
    /\ \E t \in Tunnels, to \in {"active", "rejected", "closed"} :
        /\ tunnel[t] # "none"
        /\ transition' = [transition EXCEPT ![c] =
             IF ValidTransition(tunnel[t], to)
               THEN [pc |-> "write", id |-> t, from |-> tunnel[t], to |-> to]
               ELSE DoneTransition]
    /\ UNCHANGED <<tunnel, lapsed, sweep, exchange, daemon, dropped, everEnded, excused>>

(* It writes the state by id and commits. *)
TransitionWrites(c) ==
    LET t == transition[c].id IN
    /\ transition[c].pc = "write"
    /\ Write([tunnel EXCEPT ![t] = transition[c].to])
    /\ excused' = IF tunnel[t] = transition[c].from THEN excused ELSE excused \cup {t}
    /\ transition' = [transition EXCEPT ![c] = DoneTransition]
    /\ UNCHANGED <<lapsed, sweep, exchange, daemon, dropped>>

(* It fails and is rolled back. *)
TransitionFails(c) ==
    /\ transition[c].pc = "write"
    /\ transition' = [transition EXCEPT ![c] = DoneTransition]
    /\ UNCHANGED <<tunnel, lapsed, sweep, exchange, daemon, dropped, everEnded, excused>>

(* CloseExpiredTunnels lists the expired rows ... *)
SweepLists ==
    /\ sweep = {}
    /\ sweep' = OpenTunnels \cap lapsed
    /\ UNCHANGED <<tunnel, lapsed, transition, exchange, daemon, dropped, everEnded, excused>>

(* ... and closes them one by one, whatever their state by then. *)
SweepCloses(t) ==
    /\ t \in sweep
    /\ Write([tunnel EXCEPT ![t] = "closed"])
    /\ sweep' = sweep \ {t}
    /\ UNCHANGED <<lapsed, transition, exchange, daemon, dropped, excused>>

(* An update fails: the sweep ends, the next tick lists the rows again. *)
SweepFails ==
    /\ sweep # {}
    /\ sweep' = {}
    /\ UNCHANGED <<tunnel, lapsed, transition, exchange, daemon, dropped, everEnded, excused>>

-----------------------------------------------------------------------------

(* ProxyExchange attaches its stream, in place of any other. *)
ExchangeAttaches(x) ==
    /\ exchange[x] = "new"
    /\ exchange' = [exchange EXCEPT ![x] = "attached"]
    /\ daemon' = x
    /\ UNCHANGED <<tunnel, lapsed, transition, sweep, dropped, everEnded, excused>>

(* The stream is over: the deferred function detaches it if it is the one    *)
(* the registry holds.                                                       *)
ExchangeDetaches(x) ==
    /\ exchange[x] = "attached"
    /\ exchange' = [exchange EXCEPT ![x] = "detached"]
    /\ IF daemon = x
         THEN daemon' = NoExchange /\ dropped' = dropped \cup OpenTunnels
         ELSE UNCHANGED <<daemon, dropped>>
    /\ UNCHANGED <<tunnel, lapsed, transition, sweep, everEnded, excused>>

(* HasDaemon: the cleanup is skipped when a newer stream is attached. *)
HasDaemon(x) ==
    /\ exchange[x] = "detached"
    /\ exchange' = [exchange EXCEPT ![x] = IF daemon # NoExchange THEN "over" ELSE "cleanup"]
    /\ UNCHANGED <<tunnel, lapsed, transition, sweep, daemon, dropped, everEnded, excused>>

(* Variant: only active rows are closed. *)
CleanupOfActive(x) ==
    /\ exchange[x] = "cleanup"
    /\ exchange' = [exchange EXCEPT ![x] = "over"]
    /\ Write([t \in Tunnels |-> IF tunnel[t] = "active" THEN "closed" ELSE tunnel[t]])
    /\ UNCHANGED <<lapsed, transition, sweep, daemon, dropped, excused>>

(* CloseTunnelsForComputer: one update of every open row of the computer.   *)
(* A stream attached since the check does not stop it.                      *)
Cleanup(x) ==
    /\ exchange[x] = "cleanup"
    /\ exchange' = [exchange EXCEPT ![x] = "over"]
    /\ Write([t \in Tunnels |-> IF tunnel[t] \in Open THEN "closed" ELSE tunnel[t]])
    /\ UNCHANGED <<lapsed, transition, sweep, daemon, dropped, excused>>

(* The update fails or runs into its 5 seconds: that is logged, not retried. *)
CleanupFails(x) ==
    /\ exchange[x] = "cleanup"
    /\ exchange' = [exchange EXCEPT ![x] = "over"]
    /\ excused' = excused \cup OpenTunnels
    /\ UNCHANGED <<tunnel, lapsed, transition, sweep, daemon, dropped, everEnded>>

TunnelRecordNext ==
    \/ \E t \in Tunnels : CreateTunnel(t) \/ Lapse(t) \/ SweepCloses(t)
    \/ \E c \in Transitions : TransitionReads(c) \/ TransitionWrites(c) \/ TransitionFails(c)
    \/ SweepLists \/ SweepFails
    \/ \E x \in Exchanges : \/ ExchangeAttaches(x) \/ ExchangeDetaches(x) \/ HasDaemon(x)
                            \/ Cleanup(x) \/ CleanupFails(x)

TunnelRecordSpec == TunnelRecordInit /\ [][TunnelRecordNext]_tunnelRecordVars

-----------------------------------------------------------------------------

TunnelRecordTypeOK ==
    /\ tunnel \in [Tunnels -> TunnelStates]
    /\ \A c \in Transitions : transition[c].pc \in {"idle", "write", "done"}
    /\ exchange \in [Exchanges -> {"new", "attached", "detached", "cleanup", "over"}]
    /\ daemon \in Exchanges \cup {NoExchange}
    /\ lapsed \cup sweep \cup dropped \cup everEnded \cup excused \subseteq Tunnels

(* validTunnelTransition: rejected and closed are final. *)
EndedIsFinal == \A t \in everEnded \ excused : tunnel[t] \in Ended

(* Once no handler of the computer is left, the rows that were open when the *)
(* registry lost its stream have ended.                                      *)
NoOpenRowLeftBehind ==
    (\A x \in Exchanges : exchange[x] \in {"new", "over"}) =>
        \A t \in dropped \ excused : tunnel[t] \in Ended

(* The disconnect cleanup of ProxyExchange, however reconnecting streams     *)
(* overlap and whatever the sweeper and the handlers do beside it, leaves no *)
(* row open that was open when the computer's stream was lost, and nothing   *)
(* reopens an ended row, unless a transition wrote on the strength of an     *)
(* overtaken read (possible on PostgreSQL and MySQL) or the cleanup failed.  *)
DisconnectEndsTunnels == EndedIsFinal /\ NoOpenRowLeftBehind
=============================================================================
