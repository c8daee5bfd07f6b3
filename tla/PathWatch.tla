------------------------------- MODULE PathWatch -------------------------------
(***************************************************************************)
(* Path-change subscriptions for one peer: the watcher task the core shares   *)
(* among the subscriptions (endpoint/observe.rs), the adapter's table of      *)
(* receivers with the commands next_path_change and unsubscribe_path_changes, *)
(* and the JavaScript iterator that calls them (IrohNode.ts): one call at a   *)
(* time, one unsubscribe, nothing after that.                                *)
(***************************************************************************)
EXTENDS AdapterEndpoint

CONSTANTS Sub,        \* subscriptions
          Ids,        \* identities of channels and of watcher tasks, reused when free
          MaxPaths    \* bound on the changes of the active path

\* There is always an identity besides one in use.
ASSUME PathAssumption == Ids # {} /\ 0 \notin Ids /\ \A c \in Ids : \E d \in Ids : d # c

VARIABLES chan,      \* chan[s]: the unread items of each channel made for s
          table,     \* table[s]: the channel in the adapter's table, 0 for none
          senders,   \* senders[w]: the senders of watcher w's PathSubscriptions
          entry,     \* the watcher whose PathSubscriptions is in path_subs, 0 for none
          watcher,   \* the watcher tasks: where each is, and the path it saw last
          path,      \* the peer's active path, 0 for none
          iter       \* iter[s]: the iterator, its call and its unsubscribe

pathVars == <<chan, table, senders, entry, watcher, path, iter>>

NoSenders == [s \in Sub |-> 0]

Gone == [at |-> "over", last |-> 0]

PathInit ==
    /\ chan = [s \in Sub |-> [c \in Ids |-> <<>>]] /\ table = [s \in Sub |-> 0]
    /\ senders = [w \in Ids |-> NoSenders] /\ entry = 0
    /\ watcher = [w \in Ids |-> Gone] /\ path = 0
    /\ iter = [s \in Sub |-> [call |-> "idle", holds |-> 0, woken |-> FALSE,
                              un |-> "no", got |-> "none"]]

SenderAlive(s, c) == \E w \in Ids : senders[w][s] = c

\* Sender::is_closed: neither the table nor a call holds the receiver.
ReceiverAlive(s, c) == table[s] = c \/ iter[s].holds = c

NewChannel(s) == CHOOSE c \in Ids : ~SenderAlive(s, c) /\ ~ReceiverAlive(s, c)

---------------------------------------------------------------------------
(* The core.                                                               *)

\* subscribe_path_changes: an older sender of the same subscription is dropped.
subscribe_path_changes(s) ==
    IF entry # 0
    THEN /\ senders' = [senders EXCEPT ![entry][s] = NewChannel(s)]
         /\ UNCHANGED <<entry, watcher>>
    ELSE LET w == CHOOSE w \in Ids : watcher[w] = Gone
         IN  /\ senders' = [senders EXCEPT ![w] = [NoSenders EXCEPT ![s] = NewChannel(s)]]
             /\ watcher' = [watcher EXCEPT ![w].at = "check"]
             /\ entry' = w

\* Fault: the last unsubscribe is taken for everybody's.
drop_senders(s) ==
    senders' = IF entry = 0 THEN senders ELSE [senders EXCEPT ![entry] = NoSenders]

\* unsubscribe_path_changes
drop_sender(s) ==
    senders' = IF entry = 0 THEN senders ELSE [senders EXCEPT ![entry][s] = 0]

WatcherAt(w, l) == watcher[w].at = l

\* Fault: the entry stays in path_subs when its watcher ends.
LeavesEntry(w) ==
    /\ watcher' = [watcher EXCEPT ![w] = Gone]
    /\ UNCHANGED <<entry, senders>>

\* The watcher drops its PathSubscriptions, and path_subs does so with it.
Leaves(w) ==
    /\ watcher' = [watcher EXCEPT ![w] = Gone]
    /\ entry' = IF entry = w THEN 0 ELSE entry
    /\ senders' = [senders EXCEPT ![w] = NoSenders]

\* The top of the loop; the check for subscribers and the removal of the entry
\* are under one lock.
WatcherChecks(w) ==
    /\ WatcherAt(w, "check")
    /\ LET live == [s \in Sub |-> IF senders[w][s] # 0 /\ ReceiverAlive(s, senders[w][s])
                                  THEN senders[w][s] ELSE 0]
       IN  IF epClosed \/ entry # w \/ live = NoSenders THEN Leaves(w)
           ELSE /\ senders' = [senders EXCEPT ![w] = live]
                /\ watcher' = [watcher EXCEPT ![w].at = "poll"]
                /\ UNCHANGED entry
    /\ UNCHANGED <<chan, table, path, iter, endpointVars>>

\* peer_stats found an active path that is not the last one: send to everyone.
WatcherPolls(w) ==
    /\ WatcherAt(w, "poll")
    /\ watcher' = [watcher EXCEPT ![w] = [at |-> "sleep", last |-> IF path = 0 THEN @.last ELSE path]]
    /\ chan' = IF path \in {0, watcher[w].last} \/ entry # w THEN chan
               ELSE [s \in Sub |-> IF senders[w][s] = 0 THEN chan[s]
                                   ELSE [chan[s] EXCEPT ![senders[w][s]] = Append(@, path)]]
    /\ UNCHANGED <<table, senders, entry, path, iter, endpointVars>>

\* 200 ms, or the endpoint closes.
WatcherSleeps(w) ==
    /\ WatcherAt(w, "sleep")
    /\ IF epClosed THEN Leaves(w)
       ELSE watcher' = [watcher EXCEPT ![w].at = "check"] /\ UNCHANGED <<entry, senders>>
    /\ UNCHANGED <<chan, table, path, iter, endpointVars>>

\* Another path becomes the active one.
PathChanges ==
    /\ path < MaxPaths /\ path' = path + 1
    /\ UNCHANGED <<chan, table, senders, entry, watcher, iter, endpointVars>>

---------------------------------------------------------------------------
(* The commands.  A call is issued by JavaScript and first polled later.     *)

CallAt(s, l) == iter[s].call = l

IteratorNext(s) ==
    /\ CallAt(s, "idle") /\ iter[s].un = "no" /\ iter[s].got # "error"
    /\ iter' = [iter EXCEPT ![s].call = "issued"]
    /\ UNCHANGED <<chan, table, senders, entry, watcher, path, endpointVars>>

\* entry(key).or_insert_with(subscribe): the call holds the receiver from here.
CallEnters(s) ==
    /\ CallAt(s, "issued")
    /\ IF ~Runs("nextPath", <<>>)
       THEN /\ iter' = [iter EXCEPT ![s].call = "idle", ![s].got = "error"]
            /\ UNCHANGED <<table, senders, entry, watcher>>
       ELSE /\ IF table[s] = 0
               THEN subscribe_path_changes(s) /\ table' = [table EXCEPT ![s] = NewChannel(s)]
               ELSE UNCHANGED <<table, senders, entry, watcher>>
            /\ iter' = [iter EXCEPT ![s].call = "waiting", ![s].holds = table'[s], ![s].woken = FALSE]
    /\ UNCHANGED <<chan, path, endpointVars>>

\* select! on recv and notified; a null takes this very receiver off the table and
\* makes the iterator clean up.  History: a null that nothing explains is "early".
CallReturns(s) ==
    /\ CallAt(s, "waiting") \/ CallAt(s, "parked")
    /\ LET c == iter[s].holds
           Path == /\ chan[s][c] # <<>>
                   /\ chan' = [chan EXCEPT ![s][c] = Tail(@)]
                   /\ iter' = [iter EXCEPT ![s].call = "idle", ![s].holds = 0,
                                          ![s].woken = FALSE, ![s].got = "path"]
                   /\ UNCHANGED table
           Null == /\ iter[s].woken \/ (chan[s][c] = <<>> /\ ~SenderAlive(s, c))
                   /\ iter' = [iter EXCEPT ![s].call = "idle", ![s].holds = 0,
                        ![s].woken = FALSE, ![s].got = IF epClosed \/ iter[s].un # "no" THEN "null" ELSE "early",
                        ![s].un = IF @ = "no" THEN "called" ELSE @]
                   /\ table' = [table EXCEPT ![s] = IF @ = c THEN 0 ELSE @]
                   /\ chan' = [chan EXCEPT ![s][c] = <<>>]
       IN  Path \/ Null
    /\ UNCHANGED <<senders, entry, watcher, path, endpointVars>>

\* Only from here on does notify_waiters reach the call.
CallParks(s) ==
    /\ CallAt(s, "waiting")
    /\ chan[s][iter[s].holds] = <<>> /\ SenderAlive(s, iter[s].holds)
    /\ iter' = [iter EXCEPT ![s].call = "parked"]
    /\ UNCHANGED <<chan, table, senders, entry, watcher, path, endpointVars>>

\* notify_waiters, for a call parked on the receiver that leaves the table.
Notified(s) ==
    [iter[s] EXCEPT !.woken = @ \/ (iter[s].call = "parked" /\ iter[s].holds = table[s])]

\* cleanup of the iterator: return() or an abort.
\* Without a call so far there is nothing to unsubscribe.
IteratorStops(s) ==
    /\ iter[s].un = "no"
    /\ iter' = [iter EXCEPT ![s].un = IF iter[s].got = "none" /\ CallAt(s, "idle") THEN "done" ELSE "called"]
    /\ UNCHANGED <<chan, table, senders, entry, watcher, path, endpointVars>>

\* The receiver leaves the table, or a closed one is left for a call that is
\* still to come.
UnsubscribeTable(s) ==
    /\ iter[s].un = "called"
    /\ IF ~Runs("unsubscribePath", <<>>)
       THEN iter' = [iter EXCEPT ![s].un = "done"] /\ UNCHANGED <<chan, table>>
       ELSE IF table[s] # 0
       THEN /\ iter' = [iter EXCEPT ![s] = [Notified(s) EXCEPT !.un = "core"]]
            /\ table' = [table EXCEPT ![s] = 0]
            /\ chan' = IF iter[s].holds = table[s] THEN chan ELSE [chan EXCEPT ![s][table[s]] = <<>>]
       ELSE /\ iter' = [iter EXCEPT ![s].un = "core"]
            /\ table' = [table EXCEPT ![s] = NewChannel(s)]
            /\ UNCHANGED chan
    /\ UNCHANGED <<senders, entry, watcher, path, endpointVars>>

UnsubscribeCore(s) ==
    /\ iter[s].un = "core"
    /\ drop_sender(s)
    /\ iter' = [iter EXCEPT ![s].un = "done"]
    /\ UNCHANGED <<chan, table, entry, watcher, path, endpointVars>>

clear_path_change_rxs ==
    /\ close_clears
    /\ iter' = [s \in Sub |-> Notified(s)]
    /\ table' = [s \in Sub |-> 0]
    /\ chan' = [s \in Sub |-> [c \in Ids |-> IF c = iter[s].holds THEN chan[s][c] ELSE <<>>]]
    /\ UNCHANGED <<senders, entry, watcher, path>>

PathCloses ==
    \/ (close_starts \/ close_core \/ close_removes) /\ UNCHANGED pathVars
    \/ clear_path_change_rxs

---------------------------------------------------------------------------

SubStep(s) == CallEnters(s) \/ CallReturns(s) \/ CallParks(s) \/ UnsubscribeTable(s) \/ UnsubscribeCore(s)

WatcherStep(w) == WatcherChecks(w) \/ WatcherPolls(w) \/ WatcherSleeps(w)

PathNext ==
    \/ \E s \in Sub : SubStep(s) \/ IteratorNext(s) \/ IteratorStops(s)
    \/ \E w \in Ids : WatcherStep(w)
    \/ PathChanges \/ PathCloses

\* The tasks run, the commands are polled, and close_endpoint goes on.
PathFairness ==
    /\ \A s \in Sub : WF_<<endpointVars, pathVars>>(SubStep(s))
    /\ \A w \in Ids : WF_<<endpointVars, pathVars>>(WatcherStep(w))
    /\ WF_<<endpointVars, pathVars>>(closing # "idle" /\ PathCloses)

---------------------------------------------------------------------------
(* Properties.                                                             *)

\* An iterator ends only because it was stopped or the endpoint closed: neither
\* another subscription's unsubscribe nor a watcher that found no subscriber a
\* moment ago ends it (next_path_change, subscribe_path_changes).
NeverEndsEarly == \A s \in Sub : iter[s].got # "early"

\* Every subscription in the table is served by a watcher that sees the latest
\* path, also when it joined while the previous watcher was leaving; once the
\* endpoint has closed no call is left waiting; and a watcher stays only as long
\* as the endpoint is open and somebody holds a receiver of its own
\* (subscribe_path_changes, the closed checks and the retain of its watcher).
PathSettles ==
    []<>(/\ \A s \in Sub : table[s] # 0 /\ iter[s].un = "no" /\ path # 0 /\ ~epClosed =>
              entry # 0 /\ watcher[entry].last = path
         /\ epClosed => \A s \in Sub : CallAt(s, "idle")
         /\ \A w \in Ids : watcher[w].at # "over" =>
              /\ ~epClosed
              /\ \E s \in Sub : senders[w][s] # 0 /\ ReceiverAlive(s, senders[w][s]))

=============================================================================
