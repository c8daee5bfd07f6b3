-------------------------------- MODULE Sessions --------------------------------
(***************************************************************************)
(* The session commands (ffi/session.rs behind the adapters): connect and     *)
(* accept, the streams and datagrams of a session, close and closed.  Each    *)
(* session has a QUIC connection; a call looks its session up once, before it *)
(* waits, and works on the connection it found from then on.                  *)
(*                                                                         *)
(* What the bodies of the streams carry is the matter of module InboundBody,  *)
(* and the reuse of handles that of HandleRegistry.  A connection that nobody *)
(* holds any longer is closed by the QUIC library, for its peer to see.       *)
(***************************************************************************)
EXTENDS AdapterEndpoint

CONSTANTS Sess,         \* sessions
          SCall,        \* calls
          SessPlans,    \* plans: the sessions open from the start, each call's command, and
                        \* which of "peer", "sweep" and "close" happen
          MaxSess,      \* max_handles, of the sessions
          MaxStreams    \* max_handles, of the readers and of the writers

VARIABLES link,       \* link[x]: the connection of x, named by the session it was made for
          linkEnded,  \* linkEnded[c]: how connection c ended, "no" while it is up
          sessions,   \* the session table
          sreaders,   \* the calls whose reader is in the table of readers
          swriters,   \* the calls whose writer is in the table of writers
          scall,      \* scall[k]: the command, its session, where it is and what it got
          may         \* the events of the plan

sessionVars == <<may, link, linkEnded, sessions, sreaders, swriters, scall>>

NoLink == "none"

SessionInit ==
    \E p \in SessPlans :
        /\ may = p.events /\ sessions = p.open
        /\ link = [x \in Sess |-> IF x \in p.open THEN x ELSE NoLink]
        /\ linkEnded = [c \in Sess |-> "no"] /\ sreaders = {} /\ swriters = {}
        /\ scall = [k \in SCall |-> [op |-> p.calls[k][1], of |-> p.calls[k][2],
                                     at |-> "idle", got |-> "none"]]

Opens(k) == scall[k].op \in {"connect", "accept"}

SCallAt(k, l) == scall[k].at = l

SCallTo(k, l) == scall' = [scall EXCEPT ![k].at = l]

Returns(k, got) == scall' = [scall EXCEPT ![k].at = "over", ![k].got = got]

\* JavaScript has the handle.
Handed(x) ==
    /\ link[x] # NoLink
    /\ \A j \in SCall : Opens(j) /\ scall[j].of = x => scall[j].got = "session"

Issue(k) ==
    /\ SCallAt(k, "idle") /\ scall[k].op # "off"
    /\ ~Opens(k) => Handed(scall[k].of)
    /\ SCallTo(k, "issued")
    /\ UNCHANGED <<may, link, linkEnded, sessions, sreaders, swriters, endpointVars>>

---------------------------------------------------------------------------
(* connect and accept.                                                     *)

\* A dedicated connection.
Linked(x) == [link EXCEPT ![x] = x]

\* The handshake succeeds or fails; a peer that speaks another protocol is turned away.
DialReturns(k) ==
    /\ SCallAt(k, "dial")
    /\ \/ ~epClosed /\ link' = Linked(scall[k].of) /\ SCallTo(k, "insert")
       \/ Returns(k, "error") /\ UNCHANGED link
    /\ UNCHANGED <<may, linkEnded, sessions, sreaders, swriters, endpointVars>>

\* endpoint.accept() is over, or the connection attempt is.
DialEnds(k) ==
    /\ SCallAt(k, "dial") /\ epClosed
    /\ Returns(k, IF scall[k].op = "accept" THEN "null" ELSE "error")
    /\ UNCHANGED <<may, link, linkEnded, sessions, sreaders, swriters, endpointVars>>

insert_session(k) ==
    /\ SCallAt(k, "insert")
    /\ IF Cardinality(sessions) >= MaxSess THEN Returns(k, "error") /\ UNCHANGED sessions
       ELSE Returns(k, "session") /\ sessions' = sessions \cup {scall[k].of}
    /\ UNCHANGED <<may, link, linkEnded, sreaders, swriters, endpointVars>>

---------------------------------------------------------------------------
(* Commands on a session.                                                  *)

Connection(k) == link[scall[k].of]

\* conn.close: the first reason stands.
EndWith(c, why) == linkEnded' = [linkEnded EXCEPT ![c] = IF @ = "no" THEN why ELSE @]

\* The command runs up to its first await: conn() looks the session up.
Enter(k) ==
    /\ SCallAt(k, "issued")
    /\ LET op == scall[k].op IN
       CASE ~Runs(op, <<>>) -> Returns(k, "error") /\ UNCHANGED linkEnded
         [] Runs(op, <<>>) /\ Opens(k) -> SCallTo(k, "dial") /\ UNCHANGED linkEnded
         [] Runs(op, <<>>) /\ ~Opens(k) /\ scall[k].of \notin sessions ->
              Returns(k, IF op = "closed" THEN "default" ELSE "error") /\ UNCHANGED linkEnded
         [] OTHER ->
              CASE op = "closeSession" -> Returns(k, "ok") /\ EndWith(Connection(k), "local")
                [] op = "sendDatagram" ->
                     Returns(k, IF linkEnded[Connection(k)] = "no" THEN "ok" ELSE "error") /\ UNCHANGED linkEnded
                [] OTHER -> SCallTo(k, "wait") /\ UNCHANGED linkEnded
    /\ UNCHANGED <<may, link, sessions, sreaders, swriters, endpointVars>>

Creates(k) == scall[k].op \in {"createBidi", "createUni"}

\* open_bi, open_uni on a live connection; accept_bi, accept_uni, read_datagram,
\* which still give out what arrived before the end.
StreamComes(k) ==
    /\ SCallAt(k, "wait") /\ scall[k].op # "closed"
    /\ Creates(k) => linkEnded[Connection(k)] = "no"
    /\ CASE scall[k].op = "recvDatagram" -> Returns(k, "data")
         [] scall[k].op = "createUni"    -> SCallTo(k, "writer")
         [] OTHER                        -> SCallTo(k, "reader")
    /\ UNCHANGED <<may, link, linkEnded, sessions, sreaders, swriters, endpointVars>>

\* wrap_bidi_stream, its first half, and next_uni_stream.
WrapReader(k) ==
    /\ SCallAt(k, "reader")
    /\ IF Cardinality(sreaders) >= MaxStreams THEN Returns(k, "error") /\ UNCHANGED sreaders
       ELSE /\ sreaders' = sreaders \cup {k}
            /\ IF scall[k].op = "nextUni" THEN Returns(k, "stream") ELSE SCallTo(k, "writer")
    /\ UNCHANGED <<may, link, linkEnded, sessions, swriters, endpointVars>>

\* Fault: no guard takes the reader back.
WrapWriterUnguarded(k) ==
    /\ SCallAt(k, "writer")
    /\ IF Cardinality(swriters) >= MaxStreams THEN Returns(k, "error") /\ UNCHANGED <<sreaders, swriters>>
       ELSE swriters' = swriters \cup {k} /\ Returns(k, "stream") /\ UNCHANGED sreaders
    /\ UNCHANGED <<may, link, linkEnded, sessions, endpointVars>>

\* Its second half, and create_uni_stream; without room the guard takes the
\* reader back.
WrapWriter(k) ==
    /\ SCallAt(k, "writer")
    /\ IF Cardinality(swriters) >= MaxStreams
       THEN Returns(k, "error") /\ sreaders' = sreaders \ {k} /\ UNCHANGED swriters
       ELSE swriters' = swriters \cup {k} /\ Returns(k, "stream") /\ UNCHANGED sreaders
    /\ UNCHANGED <<may, link, linkEnded, sessions, endpointVars>>

is_connection_closed(why) == why \in {"local", "peer", "lost"}

\* Fault: closed() leaves the session in the table.
SeesEndKeeping(k) ==
    /\ SCallAt(k, "wait") /\ linkEnded[Connection(k)] # "no"
    /\ Returns(k, CASE scall[k].op = "closed" -> linkEnded[Connection(k)]
                    [] Creates(k) -> "error"
                    [] OTHER -> IF is_connection_closed(linkEnded[Connection(k)]) THEN "null" ELSE "error")
    /\ UNCHANGED <<may, link, linkEnded, sessions, sreaders, swriters, endpointVars>>

\* The connection has ended: closed() reports how and frees the session, the
\* streams to come are over, and a new one is refused.
SeesEnd(k) ==
    /\ SCallAt(k, "wait") /\ linkEnded[Connection(k)] # "no"
    /\ Returns(k, CASE scall[k].op = "closed" -> linkEnded[Connection(k)]
                    [] Creates(k) -> "error"
                    [] OTHER -> IF is_connection_closed(linkEnded[Connection(k)]) THEN "null" ELSE "error")
    /\ sessions' = IF scall[k].op = "closed" THEN sessions \ {scall[k].of} ELSE sessions
    /\ UNCHANGED <<may, link, linkEnded, sreaders, swriters, endpointVars>>

\* JavaScript is done with a stream it was given.
StreamReleased(k) ==
    /\ scall[k].got = "stream"
    /\ \/ k \in sreaders /\ sreaders' = sreaders \ {k} /\ UNCHANGED swriters
       \/ k \in swriters /\ swriters' = swriters \ {k} /\ UNCHANGED sreaders
    /\ UNCHANGED <<may, link, linkEnded, sessions, scall, endpointVars>>

---------------------------------------------------------------------------
(* The peer, the sweep, the endpoint.                                       *)

PeerEnds(c) ==
    /\ "peer" \in may /\ link[c] = c /\ linkEnded[c] = "no"
    /\ \E why \in {"peer", "lost", "fault"} : EndWith(c, why)
    /\ UNCHANGED <<may, link, sessions, sreaders, swriters, scall, endpointVars>>

\* The time of insertion counts: lookup_session does not touch the entry.
SweepSession(x) ==
    /\ "sweep" \in may /\ x \in sessions /\ sessions' = sessions \ {x}
    /\ UNCHANGED <<may, link, linkEnded, sreaders, swriters, scall, endpointVars>>

\* The connections are closed before the endpoint reports that it is.
SessionCloses ==
    \/ "close" \in may /\ close_starts /\ UNCHANGED sessionVars
    \/ (close_clears \/ close_removes) /\ UNCHANGED sessionVars
    \/ /\ close_core
       /\ linkEnded' = [c \in Sess |-> IF linkEnded[c] = "no" THEN "local" ELSE linkEnded[c]]
       /\ UNCHANGED <<may, link, sessions, sreaders, swriters, scall>>

---------------------------------------------------------------------------

SCallStep(k) == Enter(k) \/ DialEnds(k) \/ insert_session(k) \/ WrapReader(k) \/ WrapWriter(k) \/ SeesEnd(k)

SessionNext ==
    \/ \E k \in SCall : SCallStep(k) \/ Issue(k) \/ DialReturns(k) \/ StreamComes(k) \/ StreamReleased(k)
    \/ \E x \in Sess : PeerEnds(x) \/ SweepSession(x)
    \/ SessionCloses

\* A command that can go on without the peer does.
SessionFairness ==
    /\ \A k \in SCall : WF_<<endpointVars, sessionVars>>(SCallStep(k))
    /\ WF_<<endpointVars, sessionVars>>(closing # "idle" /\ "close" \in may /\ SessionCloses)

---------------------------------------------------------------------------
(* Properties.                                                             *)

\* Every reader and writer in the tables belongs to a stream that JavaScript was
\* given, or to a call still at work: a stream of which only half found room
\* leaves nothing behind (wrap_bidi_stream).
NoHalfStream ==
    \A k \in sreaders \cup swriters : scall[k].got = "stream" \/ SCallAt(k, "writer")

\* No call is left waiting on a connection or an endpoint that is gone, and a
\* session whose end closed() has reported is out of the table (next_bidi_stream,
\* next_uni_stream, recv_datagram, accept, closed).
SessionCallsReturn ==
    []<>(\A k \in SCall :
           /\ ~SCallAt(k, "issued")
           /\ SCallAt(k, "dial") => ~epClosed
           /\ SCallAt(k, "wait") => linkEnded[Connection(k)] = "no"
           /\ scall[k].op = "closed" /\ scall[k].got \notin {"none", "error"} => scall[k].of \notin sessions)
=============================================================================
