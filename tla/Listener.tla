------------------------------ MODULE Listener ------------------------------
(***************************************************************************)
(* ListenerManager of src/src/listener.ts over the port mapper, as         *)
(* setListener() of src/src/services.ts calls it.  enable() keeps its      *)
(* place across three awaits: mapPort(), the verifier, and unmapPort()     *)
(* when the verifier says no.  It rebuilds this.status from this.status at *)
(* each of them.                                                           *)
(*                                                                         *)
(* An endpoint is an external address with a port.  The router may get     *)
(* another address at any time; enabling again is how the new one is       *)
(* proposed.  The verifier answers as it likes, or it throws.              *)
(***************************************************************************)
EXTENDS PortMapper

CONSTANTS
    Ip          \* external addresses

VARIABLES
    status,     \* this.status
    ask,        \* per call: where enable() or disable() waits, and for what
    extIP,      \* the router's address
    confirmed   \* history: the endpoint the verifier confirmed last, or none

listenerVars == <<status, ask>>
vars == <<journalVars, mapperVars, live, raced, listenerVars, extIP, confirmed>>

NoEndpoint == <<"none", "none">>
Endpoint == Ip \X Port
Disabled == [state |-> "disabled", ep |-> NoEndpoint, verified |-> FALSE, advertised |-> FALSE]
Status == [state : {"disabled", "mapping", "verifying", "active", "failed"},
           ep : (Ip \cup {"none"}) \X (Port \cup {"none"}),
           verified : BOOLEAN, advertised : BOOLEAN]
NotAsking == [at |-> "idle", ep |-> NoEndpoint]
Asking(at, ep) == [at |-> at, ep |-> ep]

Init ==
    /\ JournalInit /\ MapperInit
    /\ status = Disabled
    /\ ask = [c \in Call |-> NotAsking]
    /\ extIP \in Ip
    /\ confirmed = NoEndpoint

At(c, place) == ask[c].at = place
Goes(c, at, ep) == ask' = [ask EXCEPT ![c] = Asking(at, ep)]
Quits(c) == ask' = [ask EXCEPT ![c] = NotAsking]

-----------------------------------------------------------------------------
(* enable() *)

EnableStart(c) ==
    /\ At(c, "idle")
    /\ status' = [status EXCEPT !.state = "mapping"]
    /\ Goes(c, "mapping", NoEndpoint)
    /\ UNCHANGED <<journalVars, mapperVars, live, raced, extIP, confirmed>>

\* mapPort() fails.  A conflict is reported with the address, an error without.
Failed(ip) == [state |-> "failed", ep |-> <<ip, "none">>, verified |-> FALSE, advertised |-> FALSE]
EnableRefused(c) ==
    /\ At(c, "mapping") /\ job[c] = Idle
    /\ MapRefused(c)
    /\ status' \in {Failed(extIP), Failed("none")}
    /\ Quits(c)
    /\ UNCHANGED <<extIP, confirmed>>

EnableChecked(c, p) ==
    /\ At(c, "mapping") /\ job[c] = Idle
    /\ MapChecked(c, p)
    /\ Goes(c, "mapping", <<extIP, p>>)
    /\ UNCHANGED <<status, extIP, confirmed>>

EnableMapThrows(c) ==
    /\ At(c, "mapping")
    /\ MapThrows(c)
    /\ status' = Failed("none")
    /\ Quits(c)
    /\ UNCHANGED <<extIP, confirmed>>

EnableMapped(c) ==
    /\ At(c, "mapping")
    /\ MapAdded(c)
    /\ status' = [status EXCEPT !.state = "verifying", !.ep = ask[c].ep]
    /\ Goes(c, "verifying", ask[c].ep)
    /\ UNCHANGED <<extIP, confirmed>>

\* The verifier says yes.
EnableVerified(c) ==
    /\ At(c, "verifying")
    /\ confirmed' = ask[c].ep
    /\ status' = [status EXCEPT !.state = "active", !.verified = TRUE, !.advertised = TRUE]
    /\ Quits(c)
    /\ UNCHANGED <<journalVars, mapperVars, live, raced, extIP>>

\* It throws, and enable() with it: the status is left as it is.
EnableRejects(c) ==
    /\ At(c, "verifying")
    /\ Quits(c)
    /\ UNCHANGED <<journalVars, mapperVars, live, raced, status, extIP, confirmed>>

\* unmapPort() returns at once if it has nothing to delete, and else with its
\* last answer.  Whoever awaits it goes on in that same turn of the event
\* loop: the status becomes s, and the call is answered.
Unmapped(c, at, s) ==
    IF job'[c] = Idle
    THEN status' = s /\ Quits(c)
    ELSE Goes(c, at, NoEndpoint) /\ UNCHANGED status

\* Mutant: the verdict on the endpoint is taken over from before.
RolledBackStateOnly(s) == [s EXCEPT !.state = "failed", !.ep = <<@[1], "none">>]

\* It says no: the mapping is rolled back, then the status is set.
RolledBack(s) == [s EXCEPT !.state = "failed", !.verified = FALSE, !.advertised = FALSE,
                           !.ep = <<@[1], "none">>]
EnableUnverified(c) ==
    /\ At(c, "verifying")
    /\ UnmapStart(c) \/ UnmapNothing(c)
    /\ Unmapped(c, "rollback", RolledBack(status))
    /\ UNCHANGED <<extIP, confirmed>>

(* disable() *)

DisableStart(c) ==
    /\ At(c, "idle")
    /\ UnmapStart(c) \/ UnmapNothing(c)
    /\ Unmapped(c, "disabling", Disabled)
    /\ UNCHANGED <<extIP, confirmed>>

(* unmapPort() goes on, for either *)
Unmap(c) ==
    /\ \E e \in job[c].todo : UnmapDeleted(c, e) \/ UnmapThrows(c, e)
    /\ Unmapped(c, ask[c].at, IF At(c, "rollback") THEN RolledBack(status) ELSE Disabled)
    /\ UNCHANGED <<extIP, confirmed>>

Start(c) == EnableStart(c) \/ DisableStart(c)
Enable(c) ==
    \/ EnableRefused(c) \/ EnableMapThrows(c) \/ EnableMapped(c)
    \/ \E p \in Port : EnableChecked(c, p)
    \/ EnableVerified(c) \/ EnableUnverified(c) \/ EnableRejects(c)
GoOn(c) == Enable(c) \/ Unmap(c)

Fire ==
    /\ TimerFires
    /\ UNCHANGED <<listenerVars, extIP, confirmed>>
Renewed ==
    /\ \E p \in Port, ok \in BOOLEAN : RenewalAnswered(p, ok)
    /\ UNCHANGED <<listenerVars, extIP, confirmed>>

World ==
    \/ /\ \E p \in Port : LeaseExpires(p) \/ Foreign(p)
       /\ UNCHANGED <<listenerVars, extIP, confirmed>>
    \/ /\ extIP' \in Ip
       /\ UNCHANGED <<journalVars, mapperVars, live, raced, listenerVars, confirmed>>

-----------------------------------------------------------------------------
\* Every call has been answered.
Rest == \A c \in Call : At(c, "idle")

\* The timer fires, and the router answers its renewal, whatever calls await.
Progress == Fire \/ Renewed \/ World \/ \E c \in Call : GoOn(c)

\* Calls one after the other, as a user makes them who waits for each answer.
SerialNext == Progress \/ (Rest /\ \E c \in Call : Start(c))
SerialSpec == Init /\ [][SerialNext]_vars

\* The HTTP server does not make anybody wait.
Next == Progress \/ \E c \in Call : Start(c)
Spec == Init /\ [][Next]_vars

-----------------------------------------------------------------------------
(* Properties *)

\* The variables keep their types.
TypeOK ==
    /\ entries \in [Id -> Entry \cup {NoEntry}]
    /\ stored \in [Id -> Entry \cup {NoEntry}]
    /\ tail \in Line \cup {NoTail, Garbage}
    /\ drawn \in 0 .. MaxId
    /\ current \in Port \cup {NoPort} /\ renewing \in [Port -> Nat]
    /\ handle \in BOOLEAN /\ loose \in Nat
    /\ job \in [Call -> Job]
    /\ \A c \in Call : job[c].at = "deleting" => current # NoPort
    /\ live \in [Port -> {"none", "ours", "foreign"}] /\ raced \subseteq Port
    /\ status \in Status
    /\ \A c \in Call : job[c] # Idle => ask[c].at \in {"mapping", "rollback", "disabling"}
    /\ extIP \in Ip /\ confirmed \in Endpoint \cup {NoEndpoint}

\* Once every call has been answered, an endpoint is advertised only if it is
\* the one that the verifier confirmed last, and the mapper holds its port.
\* The code does not keep this when the verifier throws: enable() leaves the
\* state "verifying" then, with the new endpoint and the old verdict.
AdvertisedAtRest ==
    Rest /\ status.advertised /\ status.state # "verifying" =>
        /\ status.state = "active" /\ status.verified
        /\ status.ep = confirmed
        /\ current = status.ep[2]

\* "Verified-before-advertised: an unverified endpoint is NEVER advertised"
\* (enable()): the endpoint of an active listener is the one that the verifier
\* confirmed last.  The code does not keep this when calls overlap.
VerifiedBeforeAdvertised ==
    status.state = "active" /\ status.advertised /\ status.ep \in Endpoint =>
        status.ep = confirmed

\* Once disable() has been answered, no mapping is held, so none is renewed:
\* neither by the timer nor by one whose handle was lost.
DisabledIsUnmapped ==
    Rest /\ status.state = "disabled" => current = NoPort /\ ~handle
=============================================================================
