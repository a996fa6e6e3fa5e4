------------------------- MODULE ServiceLifecycle -------------------------
(***************************************************************************)
(* The foreground Connector between unlock and lock: the owner's command   *)
(* loop (ConnectorService in connector/service.py), the WSS listener of    *)
(* one unlock lease with its expiry task and its shared close task         *)
(* (WssServer in connector/transport.py), and the tasks of each connection *)
(* (_serve_connection, and the handler task it starts).                    *)
(*                                                                         *)
(* Everything runs on one event loop: an action is what one task does      *)
(* between two of its awaits.  Tasks made ready together run in the order  *)
(* they became ready, which the model leaves open.  A cancelled task sees  *)
(* the cancellation at the await it is suspended in.                       *)
(*                                                                         *)
(* Each unlock opens the next lease, with a signer, a TLS leaf and a       *)
(* listener of its own; leases are numbered in that order.                 *)
(*                                                                         *)
(* The service opens and closes with its process, one of those that share  *)
(* the StateDirectory; it is not killed while it serves.                   *)
(***************************************************************************)
EXTENDS Naturals, StateDirectory

CONSTANTS
    Connections,       \* connections open at once
    MaxLeases          \* bound on the unlocks

ASSUME LeaseAssumption == MaxLeases \in Nat \ {0}

Leases == 1..MaxLeases

VARIABLES
    owner,             \* the command loop: what it awaits, on which lease
    service,           \* ConnectorService: _server and _signer, 0 for None
    opened,            \* leases opened so far
    listener,          \* the listening socket of each lease
    material,          \* the TLS leaf key of each lease
    closer,            \* the close task of each lease
    expiry,            \* the expiry task of each lease
    conn,              \* each connection: its lease, where its task is
    handler            \* the handler task of each connection

lifecycle == <<owner, service, opened>>
wss       == <<listener, material, closer, expiry>>
running   == <<lifecycle, wss, conn, handler>>
vars      == <<running, directory>>

-----------------------------------------------------------------------------
NoConnection == [lease |-> 0, at |-> "none", cancelled |-> FALSE]

Gone == [at |-> "gone", lease |-> 0, leaving |-> TRUE]
Prompt == [at |-> "prompt", lease |-> 0, leaving |-> FALSE]

Init ==
    /\ DirectoryInit
    /\ owner = Gone
    /\ service = [server |-> 0, signer |-> 0]
    /\ opened = 0
    /\ listener = [l \in Leases |-> "none"]
    /\ material = [l \in Leases |-> "none"]
    /\ closer = [l \in Leases |-> [at |-> "none", cancel_expiry |-> FALSE]]
    /\ expiry = [l \in Leases |-> "none"]
    /\ conn = [c \in Connections |-> NoConnection]
    /\ handler = [c \in Connections |-> "none"]

\* The connections of lease l whose tasks have not ended.
Open(l) == {c \in Connections : conn[c].at # "none" /\ conn[c].lease = l}

\* WssServer._shutdown_started is set.
Shutdown(l) == closer[l].at \in {"draining", "joining", "done"}

Unwound(c) == handler[c] \in {"none", "done"}

-----------------------------------------------------------------------------
(* WssServer.close: the first caller creates the close task, every caller  *)
(* awaits it, and none returns before it is done, cancelled or not.        *)

CloseTask(l, by_expiry) ==
    IF closer[l].at = "none"
    THEN closer' = [closer EXCEPT ![l] = [at |-> "created", cancel_expiry |-> ~by_expiry]]
    ELSE UNCHANGED closer

\* The connections whose tasks connection_handler registered.
Registered(c) == conn[c].at \in {"reading", "serving", "closing", "unwinding"}

\* Mutant: the expiry task is left asleep.
FinishStarts_LeavesExpiry(l) ==
    /\ closer[l].at = "created"
    /\ closer' = [closer EXCEPT ![l].at = "draining"]
    /\ listener' = [listener EXCEPT ![l] = "closed"]
    /\ conn' = [c \in Connections |->
                  IF c \in Open(l) /\ Registered(c)
                  THEN [conn[c] EXCEPT !.cancelled = TRUE] ELSE conn[c]]
    /\ UNCHANGED <<lifecycle, material, expiry, handler>>

\* _finish_close up to its first await: cancel the expiry task, refuse new
\* connections, cancel the registered ones.  Cancelling the expiry task ends it
\* while it sleeps; once it awaits the close task itself, close() swallows the
\* cancellation and goes on waiting.
FinishStarts(l) ==
    /\ closer[l].at = "created"
    /\ closer' = [closer EXCEPT ![l].at = "draining"]
    /\ expiry' = [expiry EXCEPT ![l] =
                    IF closer[l].cancel_expiry /\ @ = "asleep" THEN "ended" ELSE @]
    /\ listener' = [listener EXCEPT ![l] = "closed"]
    /\ conn' = [c \in Connections |->
                  IF c \in Open(l) /\ Registered(c)
                  THEN [conn[c] EXCEPT !.cancelled = TRUE] ELSE conn[c]]
    /\ UNCHANGED <<lifecycle, material, handler>>

\* Mutant: the close task cancels the connections and does not await them.
Drained_NotAwaited(l) == TRUE

\* Every connection task has ended, the refused ones (wait_closed) included.
Drained(l) == Open(l) = {}

\* Mutant: the leaf key is left to ConnectorService.lock.
FinishDrains_KeepsLeaf(l) ==
    /\ closer[l].at = "draining"
    /\ Drained(l)
    /\ closer' = [closer EXCEPT ![l].at =
                    IF closer[l].cancel_expiry THEN "joining" ELSE "done"]
    /\ UNCHANGED <<lifecycle, listener, material, expiry, conn, handler>>

\* Drop the leaf key and await the expiry task, unless it is the one who closes.
FinishDrains(l) ==
    /\ closer[l].at = "draining"
    /\ Drained(l)
    /\ material' = [material EXCEPT ![l] = "closed"]
    /\ closer' = [closer EXCEPT ![l].at =
                    IF closer[l].cancel_expiry THEN "joining" ELSE "done"]
    /\ UNCHANGED <<lifecycle, listener, expiry, conn, handler>>

FinishJoinsExpiry(l) ==
    /\ closer[l].at = "joining"
    /\ expiry[l] = "ended"
    /\ closer' = [closer EXCEPT ![l].at = "done"]
    /\ UNCHANGED <<lifecycle, listener, material, expiry, conn, handler>>

\* _close_at_expiry: the leaf certificate has run out.
ExpiryWakes(l) ==
    /\ expiry[l] = "asleep"
    /\ expiry' = [expiry EXCEPT ![l] = "closing"]
    /\ CloseTask(l, TRUE)
    /\ UNCHANGED <<lifecycle, listener, material, conn, handler>>

ExpiryReturns(l) ==
    /\ expiry[l] = "closing"
    /\ closer[l].at = "done"
    /\ expiry' = [expiry EXCEPT ![l] = "ended"]
    /\ UNCHANGED <<lifecycle, listener, material, closer, conn, handler>>

-----------------------------------------------------------------------------
(* The owner's command loop.                                               *)

\* The process that serves: it has opened the store, or it closes the service for
\* good, which gives the directory back (ConnectorService.close).
ServiceOpens(p) ==
    /\ OpenStore(p)
    /\ owner' = IF process'[p].at = "serving" THEN Prompt ELSE owner
    /\ UNCHANGED <<service, opened, wss, conn, handler>>

ServiceCloses(p) ==
    /\ owner = Gone
    /\ process[p].at = "serving"
    /\ Leaves(p)
    /\ UNCHANGED <<files, running>>

\* ConnectorService.unlock up to the await of the listener: the passphrase was
\* right, and from here on the authority may sign.
Unlock ==
    /\ owner.at = "prompt"
    /\ service.server = 0
    /\ Unlockable
    /\ opened < MaxLeases
    /\ opened' = opened + 1
    /\ owner' = [owner EXCEPT !.at = "binding", !.lease = opened + 1]
    /\ service' = [service EXCEPT !.signer = opened + 1]
    /\ material' = [material EXCEPT ![opened + 1] = "open"]
    /\ UNCHANGED <<listener, closer, expiry, conn, handler>>

\* WssServer.start: bound, the expiry task is created, the service exposes it.
ListenerStarts ==
    /\ owner.at = "binding"
    /\ LET l == owner.lease IN
         /\ listener' = [listener EXCEPT ![l] = "accepting"]
         /\ expiry' = [expiry EXCEPT ![l] = "asleep"]
         /\ service' = [service EXCEPT !.server = l]
    /\ owner' = [owner EXCEPT !.at = "prompt", !.lease = 0]
    /\ UNCHANGED <<opened, material, closer, conn, handler>>

\* The address is taken, the leaf has expired or the owner interrupts: unlock
\* gives up everything it had taken.
ListenerFails ==
    /\ owner.at = "binding"
    /\ material' = [material EXCEPT ![owner.lease] = "closed"]
    /\ service' = [service EXCEPT !.signer = 0]
    /\ owner' \in {Prompt, Gone}
    /\ UNCHANGED <<opened, listener, closer, expiry, conn, handler>>

\* ConnectorService.lock, reached from the lock command, from exit or an
\* interrupt (leaving), or from a second unlock, which is refused and ends the
\* service.  _server goes first: no handler is admitted any more.
LockStarts(leaving) ==
    /\ owner.at = "prompt"
    /\ service.server # 0
    /\ owner' = [at |-> "locking", lease |-> service.server, leaving |-> leaving]
    /\ service' = [service EXCEPT !.server = 0]
    /\ CloseTask(service.server, FALSE)
    /\ UNCHANGED <<opened, listener, material, expiry, conn, handler>>

LockReturns ==
    /\ owner.at = "locking"
    /\ closer[owner.lease].at = "done"
    /\ material' = [material EXCEPT ![owner.lease] = "closed"]
    /\ service' = [service EXCEPT !.signer = 0]
    /\ owner' = IF owner.leaving THEN Gone ELSE Prompt
    /\ UNCHANGED <<opened, listener, closer, expiry, conn, handler>>

\* Mutant: close() lets a cancelled caller go at once.
Interrupt_LetsGo ==
    /\ owner.at = "locking"
    /\ owner' = Gone
    /\ service' = [service EXCEPT !.signer = 0]
    /\ material' = [material EXCEPT ![owner.lease] = "closed"]
    /\ UNCHANGED <<opened, listener, closer, expiry, conn, handler>>

\* SIGINT cancels the command loop.  While it locks, close() swallows the
\* cancellation and raises it again only when the close task is done.
Interrupt ==
    /\ owner.at = "locking"
    /\ owner' = [owner EXCEPT !.leaving = TRUE]
    /\ UNCHANGED <<service, opened, wss, conn, handler>>

\* exit, end of input or an interrupt while locked.
LeaveLocked ==
    /\ owner.at = "prompt"
    /\ service.server = 0
    /\ owner' = Gone
    /\ UNCHANGED <<service, opened, wss, conn, handler>>

-----------------------------------------------------------------------------
(* A connection.                                                           *)

At(c, place) == [conn EXCEPT ![c].at = place]

\* TLS and the WebSocket handshake are done.
Accept(c) ==
    /\ conn[c].at = "none"
    /\ \E l \in Leases :
         /\ listener[l] = "accepting"
         /\ conn' = [conn EXCEPT ![c] = [NoConnection EXCEPT !.lease = l, !.at = "accepted"]]
    /\ handler' = [handler EXCEPT ![c] = "none"]
    /\ UNCHANGED <<lifecycle, wss>>

\* connection_handler registers its task, or refuses once shutdown has started.
Begin(c) ==
    /\ conn[c].at = "accepted"
    /\ conn' = At(c, IF Shutdown(conn[c].lease) THEN "refused" ELSE "reading")
    /\ UNCHANGED <<lifecycle, wss, handler>>

\* The peer sends one valid record: the handler gets a task of its own.
Message(c) ==
    /\ conn[c].at = "reading"
    /\ ~conn[c].cancelled
    /\ conn' = At(c, "serving")
    /\ handler' = [handler EXCEPT ![c] = "created"]
    /\ UNCHANGED <<lifecycle, wss>>

\* The task gives up on its peer (cancellation, a timeout, an invalid record) or
\* sends the handler's response: either way it closes the connection next.
StopsReading(c) ==
    /\ conn[c].at = "reading"
    /\ conn' = At(c, "closing")
    /\ UNCHANGED <<lifecycle, wss, handler>>

StopsServing(c) ==
    /\ conn[c].at = "serving"
    /\ conn' = At(c, "closing")
    /\ UNCHANGED <<lifecycle, wss, handler>>

\* The peer closes first, and the finally clause cancels the handler task, which
\* stops at its await, or never starts if it has not run yet.
Cancelled(h) ==
    CASE h = "created"   -> "done"
      [] h = "executing" -> "stopping"
      [] OTHER           -> h

\* Mutant: the handler task is awaited without having been cancelled.
Unwinds_LeavesHandler(c) ==
    /\ conn[c].at \in {"serving", "closing"}
    /\ conn' = At(c, "unwinding")
    /\ UNCHANGED <<lifecycle, wss, handler>>

Unwinds(c) ==
    /\ conn[c].at \in {"serving", "closing"}
    /\ conn' = At(c, "unwinding")
    /\ handler' = [handler EXCEPT ![c] = Cancelled(@)]
    /\ UNCHANGED <<lifecycle, wss>>

\* The finally clause has awaited the handler task, or the refusal was sent.
Ends(c) ==
    /\ \/ conn[c].at = "unwinding" /\ Unwound(c)
       \/ conn[c].at = "refused"
    /\ conn' = [conn EXCEPT ![c] = NoConnection]
    /\ handler' = [handler EXCEPT ![c] = "none"]
    /\ UNCHANGED <<lifecycle, wss>>

\* ConnectorService._handle_operation: refused while the service is locked,
\* otherwise claimed and handed to an executor, all before its only await.
HandlerStarts(c) ==
    /\ handler[c] = "created"
    /\ handler' = [handler EXCEPT ![c] =
                     IF service.signer = 0 \/ service.server = 0 THEN "done" ELSE "executing"]
    /\ UNCHANGED <<lifecycle, wss, conn>>

\* The executor returned, and the receipt was signed; or it gave way to the
\* cancellation and nothing is signed.
HandlerEnds(c) ==
    /\ handler[c] \in {"executing", "stopping"}
    /\ handler' = [handler EXCEPT ![c] = "done"]
    /\ UNCHANGED <<lifecycle, wss, conn>>

-----------------------------------------------------------------------------
LeaseStep(l) ==
    FinishStarts(l) \/ FinishDrains(l) \/ FinishJoinsExpiry(l) \/ ExpiryWakes(l) \/ ExpiryReturns(l)

ConnectionStep(c) ==
    \/ Accept(c) \/ Begin(c) \/ Message(c) \/ StopsReading(c) \/ StopsServing(c)
    \/ Unwinds(c) \/ Ends(c) \/ HandlerStarts(c) \/ HandlerEnds(c)

OwnerStep ==
    \/ Unlock \/ ListenerStarts \/ ListenerFails
    \/ (\E leaving \in BOOLEAN : LockStarts(leaving))
    \/ LockReturns \/ Interrupt \/ LeaveLocked

ServiceStep ==
    /\ \/ OwnerStep
       \/ \E l \in Leases : LeaseStep(l)
       \/ \E c \in Connections : ConnectionStep(c)
    /\ UNCHANGED directory

Next ==
    \/ ServiceStep
    \/ DirectoryStep /\ UNCHANGED running
    \/ \E p \in Processes : ServiceOpens(p) \/ ServiceCloses(p)

Spec == Init /\ [][Next]_vars

\* The event loop runs every task that can go on; idle and request timeouts and
\* the keepalive bound what a connection waits for its peer, and an executor
\* gives way to a cancellation.  The owner, the peers and the executors' answers
\* are free.
Fairness ==
    /\ WF_running(LockReturns)
    /\ \A l \in Leases :
         WF_running(FinishStarts(l) \/ FinishDrains(l) \/ FinishJoinsExpiry(l) \/ ExpiryReturns(l))
    /\ \A c \in Connections :
         /\ WF_running(Begin(c) \/ StopsReading(c) \/ StopsServing(c) \/ Ends(c))
         /\ WF_running(conn[c].at = "closing" /\ Unwinds(c))
         /\ WF_running(HandlerStarts(c))
         /\ WF_running(handler[c] = "stopping" /\ HandlerEnds(c))

FairSpec == Spec /\ Fairness

-----------------------------------------------------------------------------
(* Properties.                                                             *)

Working == {c \in Connections : handler[c] \in {"executing", "stopping"}}

\* What close promises its callers.
Released(l) ==
    /\ listener[l] # "accepting"
    /\ material[l] = "closed"
    /\ Open(l) = {}

\* Every lease the owner has let go of, by a lock that returned, by one that was
\* interrupted or by an unlock that failed, has no listener, no leaf key and no
\* connection left (ConnectorService.lock, WssServer.close).
LetGoIsReleased ==
    \A l \in 1..opened : l \notin {service.server, owner.lease} => Released(l)

\* The service implements the abstract lease.
Lease == INSTANCE UnlockLease WITH
            Workers <- Connections, lease <- service.signer, spent <- opened,
            working <- Working

ImplementsUnlockLease == Lease!Spec

\* Whatever its peer does, every connection the listener accepted comes to an
\* end (the timeouts of _serve_connection and the shutdown of the listener).
EveryConnectionEnds == \A c \in Connections : conn[c].at # "none" ~> conn[c].at = "none"

\* A shutdown, once begun, stops the listener, ends every connection and drops
\* the leaf key, whoever began it and whoever is cancelled.
ShutdownReleases == \A l \in Leases : closer[l].at # "none" ~> Released(l)

\* The close task awaits the expiry task, which awaits the close task.
MutualWait(l) == closer[l].at = "joining" /\ expiry[l] = "closing"

\* A lock command returns to the owner, save for the mutual wait.
LockReturnsUnlessMutualWait ==
    owner.at = "locking" ~> (owner.at # "locking" \/ MutualWait(owner.lease))

\* transport.py:659: "Shared shutdown must finish even when callers are
\* cancelled".  Not so when the cancelled caller is the expiry task.
SharedShutdownFinishes == \A l \in Leases : closer[l].at # "none" ~> closer[l].at = "done"

=============================================================================
