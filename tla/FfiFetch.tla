-------------------------------- MODULE FfiFetch --------------------------------
(***************************************************************************)
(* A fetch as it crosses the bridge: the JavaScript side (fetch.ts) allocates *)
(* a body writer and a cancellation token, dispatches rawFetch and pipes the  *)
(* body; the native side (raw_fetch, ffi/fetch.rs) claims the body's reader,  *)
(* races the request against the token and packages the response.  The        *)
(* tables are those of ffi/handles.rs, with their sweep.                      *)
(*                                                                         *)
(* The request itself, its pool and its retries, is module FetchRequest.      *)
(***************************************************************************)
EXTENDS AdapterEndpoint

CONSTANTS Fetch,         \* fetches
          FetchPlans,    \* what the fetches are: functions to [body, signal, valid, time]
          MaxEntries     \* max_handles

VARIABLES fplan,     \* fplan[f]: the plan of f
          fetchJs,   \* fetchJs[f]: where irohFetch is
          native,    \* native[f]: where the native call is
          aborted,   \* aborted[f]: the signal has fired
          token,     \* token[f]: the entry in fetch_cancels: "none", "live" or "gone"
          permit,    \* permit[f]: the Notify of the token holds a permit
          found,     \* found[f]: history, a cancellation has found the token
          armed,     \* armed[f]: the native call has got that Notify
          writer,    \* writer[f]: the body writer: "none", "open", "finished" or "dropped"
          reader,    \* reader[f]: "none", "pending", "claimed" or "gone"
          upload     \* upload[f]: what the peer has seen of the body's end

ffiFetchVars == <<fplan, fetchJs, native, aborted, token, permit, found, armed, writer, reader, upload>>

NoFetch == [body |-> FALSE, signal |-> FALSE, valid |-> FALSE, time |-> FALSE]

FetchInit ==
    /\ fplan \in FetchPlans
    /\ fetchJs = [f \in Fetch |-> IF fplan[f] = NoFetch THEN "over" ELSE "writer"]
    /\ native = [f \in Fetch |-> "idle"]
    /\ aborted = [f \in Fetch |-> FALSE]
    /\ token = [f \in Fetch |-> "none"] /\ permit = [f \in Fetch |-> FALSE]
    /\ found = [f \in Fetch |-> FALSE] /\ armed = [f \in Fetch |-> FALSE]
    /\ writer = [f \in Fetch |-> "none"] /\ reader = [f \in Fetch |-> "none"]
    /\ upload = [f \in Fetch |-> "none"]

Set(var, f, v) == [var EXCEPT ![f] = v]

Full(var, v) == Cardinality({f \in Fetch : var[f] = v}) >= MaxEntries

---------------------------------------------------------------------------
(* irohFetch.                                                              *)

\* allocBodyWriter: alloc_body_writer and store_pending_reader.
alloc_body_writer(f) ==
    /\ fetchJs[f] = "writer"
    /\ CASE ~fplan[f].body -> fetchJs' = Set(fetchJs, f, "token") /\ UNCHANGED <<writer, reader>>
         [] fplan[f].body /\ (Full(writer, "open") \/ ~Runs("allocBody", <<>>)) ->
              fetchJs' = Set(fetchJs, f, "over") /\ UNCHANGED <<writer, reader>>
         [] OTHER -> /\ fetchJs' = Set(fetchJs, f, "token")
                     /\ writer' = Set(writer, f, "open") /\ reader' = Set(reader, f, "pending")
    /\ UNCHANGED <<fplan, native, aborted, token, permit, found, armed, upload, endpointVars>>

alloc_fetch_token(f) ==
    /\ fetchJs[f] = "token"
    /\ CASE ~(fplan[f].body \/ fplan[f].signal) -> fetchJs' = Set(fetchJs, f, "dispatch") /\ UNCHANGED token
         [] (fplan[f].body \/ fplan[f].signal) /\ (Full(token, "live") \/ ~Runs("allocToken", <<>>)) ->
              fetchJs' = Set(fetchJs, f, "over") /\ UNCHANGED token
         [] OTHER -> fetchJs' = Set(fetchJs, f, "dispatch") /\ token' = Set(token, f, "live")
    /\ UNCHANGED <<fplan, native, aborted, permit, found, armed, writer, reader, upload, endpointVars>>

\* Fault: only a native call that is already waiting is notified.
cancel_waiting(f) ==
    /\ permit' = Set(permit, f, permit[f] \/ (token[f] = "live" /\ native[f] = "race"))
    /\ found' = Set(found, f, found[f] \/ token[f] = "live")

\* notify_one, if the token is in the table.
cancel_in_flight(f) ==
    /\ permit' = Set(permit, f, permit[f] \/ token[f] = "live")
    /\ found' = Set(found, f, found[f] \/ token[f] = "live")

\* A signal that fired early ends the fetch here; the token stays for the sweep.
CommandStarts(f) ==
    /\ fetchJs[f] = "dispatch"
    /\ IF aborted[f] THEN cancel_in_flight(f) /\ fetchJs' = Set(fetchJs, f, "over") /\ UNCHANGED native
       ELSE /\ fetchJs' = Set(fetchJs, f, "await") /\ native' = Set(native, f, "issued")
            /\ UNCHANGED <<permit, found>>
    /\ UNCHANGED <<fplan, aborted, token, armed, writer, reader, upload, endpointVars>>

\* The promise rejects at once; the native call learns of it by the token.
Abort(f) ==
    /\ fplan[f].signal /\ ~aborted[f] /\ fetchJs[f] # "over"
    /\ aborted' = Set(aborted, f, TRUE)
    /\ IF fetchJs[f] = "await"
       THEN cancel_in_flight(f) /\ fetchJs' = Set(fetchJs, f, "over")
       ELSE UNCHANGED <<permit, found, fetchJs>>
    /\ UNCHANGED <<fplan, native, token, armed, writer, reader, upload, endpointVars>>

Answered(f) ==
    /\ fetchJs[f] = "await" /\ native[f] \in {"failed", "done"} /\ fetchJs' = Set(fetchJs, f, "over")
    /\ UNCHANGED <<fplan, native, aborted, token, permit, found, armed, writer, reader, upload, endpointVars>>

---------------------------------------------------------------------------
(* The body pipe, which runs from the dispatch on.                         *)

Piping(f) == fplan[f].body /\ native[f] # "idle"

\* The source is at its end: finishBody.
finish_body(f) ==
    /\ Piping(f) /\ writer[f] = "open"
    /\ writer' = Set(writer, f, "finished")
    /\ UNCHANGED <<fplan, fetchJs, native, aborted, token, permit, found, armed, reader, upload, endpointVars>>

\* The source fails, or a chunk finds the writer swept: the request is cancelled,
\* the writer left alone.
PipeFails(f) ==
    /\ Piping(f) /\ writer[f] # "finished"
    /\ cancel_in_flight(f)
    /\ UNCHANGED <<fplan, fetchJs, native, aborted, token, armed, writer, reader, upload, endpointVars>>

---------------------------------------------------------------------------
(* raw_fetch and fetch.                                                    *)

\* The end of the native call takes the request, and with it the reader, along.
Fails(f) ==
    /\ native' = Set(native, f, "failed")
    /\ reader' = Set(reader, f, IF reader[f] = "claimed" THEN "gone" ELSE reader[f])
    /\ upload' = Set(upload, f, IF upload[f] = "none" THEN "reset" ELSE upload[f])

\* claim_pending_reader; a reader that is gone means a request without a body.
Claim(f) ==
    /\ native[f] = "issued"
    /\ IF ~Runs("fetch", <<>>) THEN Fails(f)
       ELSE /\ native' = Set(native, f, "claimed")
            /\ reader' = Set(reader, f, IF reader[f] = "pending" THEN "claimed" ELSE reader[f])
            /\ UNCHANGED upload
    /\ UNCHANGED <<fplan, fetchJs, aborted, token, permit, found, armed, writer, endpointVars>>

\* Addresses, scheme, method, headers, node id, and for a node's own id a local
\* service.  These errors return before the token is looked at.
Validate(f) ==
    /\ native[f] = "claimed"
    /\ IF fplan[f].valid THEN native' = Set(native, f, "valid") /\ UNCHANGED <<reader, upload>> ELSE Fails(f)
    /\ UNCHANGED <<fplan, fetchJs, aborted, token, permit, found, armed, writer, endpointVars>>

get_fetch_cancel_notify(f) ==
    /\ native[f] = "valid" /\ native' = Set(native, f, "race")
    /\ armed' = Set(armed, f, token[f] = "live")
    /\ UNCHANGED <<fplan, fetchJs, aborted, token, permit, found, writer, reader, upload, endpointVars>>

\* remove_fetch_token, on every exit.
TokenRemoved(f) == IF token[f] = "live" THEN Set(token, f, "gone") ELSE token

\* The token was notified, or the timeout has passed.
RaceLost(f) ==
    /\ native[f] = "race" /\ ((armed[f] /\ permit[f]) \/ fplan[f].time)
    /\ Fails(f) /\ token' = TokenRemoved(f)
    /\ UNCHANGED <<fplan, fetchJs, aborted, permit, found, armed, writer, endpointVars>>

\* The head of the response, or an error from the connection.
ResponseComes(f) ==
    /\ native[f] = "race"
    /\ \/ native' = Set(native, f, "package") /\ UNCHANGED <<reader, upload>>
       \/ Fails(f)
    /\ token' = TokenRemoved(f)
    /\ UNCHANGED <<fplan, fetchJs, aborted, permit, found, armed, writer, endpointVars>>

\* A head that is too large or not text, or no room for the body's reader, drops
\* the response; the request's body is sent on otherwise.
package_response(f) ==
    /\ native[f] = "package"
    /\ (native' = Set(native, f, "done") /\ UNCHANGED <<reader, upload>>) \/ Fails(f)
    /\ UNCHANGED <<fplan, fetchJs, aborted, token, permit, found, armed, writer, endpointVars>>

\* The writer is gone from the table and the channel read to its end.
UploadEnds(f) ==
    /\ reader[f] = "claimed" /\ native[f] \in {"race", "package", "done"}
    /\ writer[f] \in {"finished", "dropped"} /\ upload[f] = "none"
    /\ upload' = Set(upload, f, IF writer[f] = "finished" THEN "complete" ELSE "cut")
    /\ reader' = Set(reader, f, "gone")
    /\ UNCHANGED <<fplan, fetchJs, native, aborted, token, permit, found, armed, writer, endpointVars>>

---------------------------------------------------------------------------
(* The sweep.  A token is never touched, a pending reader neither, a writer   *)
(* only by a chunk.                                                        *)

SweepTokens(f) ==
    /\ token[f] = "live" /\ token' = Set(token, f, "gone")
    /\ UNCHANGED <<fplan, fetchJs, native, aborted, permit, found, armed, writer, reader, upload, endpointVars>>

SweepWriter(f) ==
    /\ writer[f] = "open" /\ writer' = Set(writer, f, "dropped")
    /\ UNCHANGED <<fplan, fetchJs, native, aborted, token, permit, found, armed, reader, upload, endpointVars>>

sweep_pending_readers(f) ==
    /\ reader[f] = "pending" /\ reader' = Set(reader, f, "gone")
    /\ UNCHANGED <<fplan, fetchJs, native, aborted, token, permit, found, armed, writer, upload, endpointVars>>

FetchCloses ==
    (close_starts \/ close_core \/ close_clears \/ close_removes) /\ UNCHANGED ffiFetchVars

---------------------------------------------------------------------------

JsStep(f) == alloc_body_writer(f) \/ alloc_fetch_token(f) \/ CommandStarts(f) \/ Answered(f)

NativeStep(f) == Claim(f) \/ Validate(f) \/ get_fetch_cancel_notify(f) \/ RaceLost(f) \/ package_response(f)

SweepStep(f) == SweepTokens(f) \/ SweepWriter(f) \/ sweep_pending_readers(f)

FetchNext ==
    \/ \E f \in Fetch : JsStep(f) \/ NativeStep(f) \/ SweepStep(f) \/ UploadEnds(f)
                        \/ Abort(f) \/ finish_body(f) \/ PipeFails(f) \/ ResponseComes(f)
    \/ FetchCloses

\* JavaScript and the native call go on; a peer need not answer, a source need
\* not end and the sweep need not find an entry it can take.
FetchFairness ==
    \A f \in Fetch :
        /\ WF_<<endpointVars, ffiFetchVars>>(JsStep(f))
        /\ WF_<<endpointVars, ffiFetchVars>>(NativeStep(f))

---------------------------------------------------------------------------
(* Properties.                                                             *)

\* A cancellation that found its token ends the native call, also when it came
\* before the call was waiting and when the peer never answers
\* (cancel_in_flight, run_with_cancel_and_timeout).
CancelEndsFetch ==
    []<>(\A f \in Fetch : armed[f] /\ found[f] => native[f] # "race")

\* The peer takes a request body for complete only if JavaScript has finished it:
\* "A clean finish would present a truncated body to the peer as complete" (fetch.ts).
NoTruncatedUpload == \A f \in Fetch : upload[f] # "cut"
=============================================================================
