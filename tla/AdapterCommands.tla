---------------------------- MODULE AdapterCommands ----------------------------
(***************************************************************************)
(* The commands the Node, Deno and Tauri adapters export, each as the        *)
(* checks it makes, in order, before it calls the core.  A check is a pair:  *)
(* the input it looks at, and the error code of the answer when that input   *)
(* is wrong, or "bounds" when the code depends on what is wrong with it.     *)
(* Of an input only the class matters that the checks tell apart.            *)
(*                                                                         *)
(* The code "plain" is an error without the {"code", "message"} envelope,    *)
(* and "done" is no error: the command has nothing left to do.               *)
(***************************************************************************)
EXTENDS Naturals, Sequences, FiniteSets, TLC

---------------------------------------------------------------------------
(* The validators of iroh-http-adapter, on classes of input.                *)

validate_bounded_string(class) ==
    CASE class = "empty" -> "INVALID_ARGUMENT"
      [] class = "long"  -> "INPUT_TOO_LARGE"
      [] class = "nul"   -> "INVALID_ENCODING"

\* A ticket is only bounded; anything else must be base32 as well.
validate_node_id(class) ==
    IF class = "alphabet" THEN "INVALID_NODE_ID" ELSE validate_bounded_string(class)

\* Too many rows, a row that is no pair, or the first bad name or value.
validate_header_rows(class) ==
    CASE class = "many" -> "INPUT_TOO_LARGE"
      [] class = "pair" -> "INVALID_ARGUMENT"
      [] OTHER          -> validate_bounded_string(class)

validate_direct_addrs(class) ==
    IF class = "many" THEN "INPUT_TOO_LARGE" ELSE validate_bounded_string(class)

\* safe_f64_to_u64 and safe_f64_to_usize.
safe_f64_to_u64(class) ==
    CASE class \in {"not_finite", "negative"} -> "INVALID_ARGUMENT"
      [] class = "fraction"                   -> "INVALID_ARGUMENT"
      [] class = "above"                      -> "INVALID_ARGUMENT"

Numbers == {"timeout", "maxResponse", "idle", "poolIdle", "handleTtl", "sweep", "maxHeader",
            "requestTimeout", "headTimeout", "bodyIdle", "wireBytes", "decodedBytes",
            "connections", "drain"}

\* What can be wrong with an input.
Classes(input) ==
    CASE input \in {"url", "method", "reason"} -> {"empty", "long", "nul"}
      [] input = "nodeId"  -> {"empty", "long", "nul", "alphabet"}
      [] input = "headers" -> {"many", "pair", "empty", "long", "nul"}
      [] input = "addrs"   -> {"many", "empty", "long", "nul"}
      [] input \in Numbers -> {"not_finite", "negative", "fraction", "above"}
      [] OTHER             -> {"wrong"}

\* AdapterInputError::code, for the validator of that input; the last is
\* validate_compression_level.
BoundsCode(input, class) ==
    CASE input \in {"url", "method", "reason"} -> validate_bounded_string(class)
      [] input = "nodeId"  -> validate_node_id(class)
      [] input = "headers" -> validate_header_rows(class)
      [] input = "addrs"   -> validate_direct_addrs(class)
      [] input \in Numbers -> safe_f64_to_u64(class)
      [] input = "level"   -> "INVALID_ARGUMENT"

B(input) == <<input, "bounds">>

coerce_fetch_options ==
    <<B("nodeId"), B("url"), B("method"), B("addrs"), B("headers"), B("timeout"), B("maxResponse")>>

coerce_endpoint_options ==
    <<B("idle"), B("poolIdle"), B("handleTtl"), B("sweep"), B("maxHeader"), B("level")>>

coerce_serve_options ==
    <<B("requestTimeout"), B("headTimeout"), B("bodyIdle"), B("wireBytes"), B("decodedBytes"),
      B("connections"), B("drain")>>

---------------------------------------------------------------------------
(* Checks that recur: the endpoint is registered, a handle is a u64, a        *)
(* payload has its fields, a direct address parses.                          *)

EP      == <<"ep", "INVALID_HANDLE">>
GONE    == <<"ep", "done">>
HANDLE  == <<"handle", "INVALID_INPUT">>
PAYLOAD == <<"payload", "UNKNOWN">>
NOFIELD == <<"handle", "UNKNOWN">>

---------------------------------------------------------------------------
(* Node.                                                                   *)

NodeEndpoint == [
    create |-> coerce_endpoint_options \o <<<<"key", "plain">>>>,
    close  |-> <<EP>>]

NodeIntrospection == [
    addr |-> <<EP>>, ticket |-> <<EP>>, homeRelay |-> <<EP>>, discoveryInfo |-> <<EP>>,
    peerInfo |-> <<EP>>, peerStats |-> <<EP>>, stats |-> <<EP>>]

NodeBodies == [
    nextChunk |-> <<EP, HANDLE>>, tryNextChunk |-> <<EP, HANDLE>>, sendChunk |-> <<EP, HANDLE>>,
    finishBody |-> <<EP, HANDLE>>, cancelRequest |-> <<EP, HANDLE>>,
    allocBody |-> <<EP>>, allocToken |-> <<EP>>, cancelInFlight |-> <<EP, HANDLE>>]

NodeFetch == [
    fetch |-> <<EP>> \o coerce_fetch_options \o <<HANDLE, <<"addr", "plain">>, HANDLE>>]

NodeServe == [
    respond |-> <<EP, B("headers"), HANDLE>>,
    serve |-> <<EP>> \o coerce_serve_options]

\* A handle that is gone has reached what these three wait for.
NodeWaits == [stopServe |-> <<GONE>>, waitServeStop |-> <<GONE>>, waitClosed |-> <<GONE>>]

NodeSessions == [
    connect |-> <<EP, B("nodeId"), B("addrs"), <<"addr", "plain">>>>,
    accept |-> <<EP>>,
    createBidi |-> <<EP, HANDLE>>, nextBidi |-> <<EP, HANDLE>>,
    closeSession |-> <<EP, <<"code", "INVALID_INPUT">>, B("reason"), HANDLE>>,
    closed |-> <<EP, HANDLE>>]

NodeStreams == [
    createUni |-> <<EP, HANDLE>>, nextUni |-> <<EP, HANDLE>>, sendDatagram |-> <<EP, HANDLE>>,
    recvDatagram |-> <<EP, HANDLE>>, maxDatagram |-> <<EP, HANDLE>>]

NodeEvents == [events |-> <<EP, <<"taken", "plain">>>>]

NodePaths == [nextPath |-> <<B("nodeId"), EP>>, unsubscribePath |-> <<B("nodeId"), EP>>]

---------------------------------------------------------------------------
(* Deno.                                                                   *)

DenoEndpoint == [
    create |-> <<PAYLOAD, <<"key", "UNKNOWN">>>> \o coerce_endpoint_options,
    close  |-> <<PAYLOAD, EP>>]

DenoIntrospection == [
    addr |-> <<PAYLOAD, EP>>, ticket |-> <<PAYLOAD, EP>>, homeRelay |-> <<PAYLOAD, EP>>,
    discoveryInfo |-> <<PAYLOAD, EP>>, peerInfo |-> <<PAYLOAD, EP>>, peerStats |-> <<PAYLOAD, EP>>,
    stats |-> <<PAYLOAD, EP>>]

\* require_endpoint comes first, the other fields after it.
DenoBodies == [
    allocBody |-> <<PAYLOAD, EP>>, allocToken |-> <<PAYLOAD, EP>>,
    cancelInFlight |-> <<PAYLOAD, EP, NOFIELD>>, nextChunk |-> <<PAYLOAD, EP, NOFIELD>>,
    sendChunk |-> <<PAYLOAD, EP, NOFIELD, <<"bytes", "UNKNOWN">>>>,
    finishBody |-> <<PAYLOAD, EP, NOFIELD>>, cancelRequest |-> <<PAYLOAD, EP, NOFIELD>>]

\* The direct entry points of the library, with numbers in place of a payload.
DenoChunks == [tryNextChunk |-> <<<<"ep", "plain">>>>]

\* Fault: the options are coerced before the endpoint is looked up.
DenoFetchCoercesFirst == [
    fetch |-> <<PAYLOAD>> \o coerce_fetch_options \o <<EP, <<"addr", "UNKNOWN">>>>]

DenoFetch == [
    fetch |-> <<PAYLOAD, EP>> \o coerce_fetch_options \o <<<<"addr", "UNKNOWN">>>>]

DenoServeCommands == [
    serve |-> <<PAYLOAD, EP>> \o coerce_serve_options,
    stopServe |-> <<PAYLOAD, EP>>,
    waitClosed |-> <<PAYLOAD, GONE>>,
    respond |-> <<PAYLOAD, EP, NOFIELD, B("headers")>>]

DenoSessions == [
    accept |-> <<PAYLOAD, EP>>,
    connect |-> <<PAYLOAD, EP, <<"addr", "UNKNOWN">>>>,
    createBidi |-> <<PAYLOAD, EP>>, nextBidi |-> <<PAYLOAD, EP>>,
    closeSession |-> <<PAYLOAD, EP>>]

DenoStreams == [
    closed |-> <<PAYLOAD, EP>>, createUni |-> <<PAYLOAD, EP>>, nextUni |-> <<PAYLOAD, EP>>,
    sendDatagram |-> <<PAYLOAD, EP, <<"bytes", "UNKNOWN">>>>,
    recvDatagram |-> <<PAYLOAD, EP>>, maxDatagram |-> <<PAYLOAD, EP>>]

\* A closed endpoint answers false here, "already gone".
DenoEvents == [events |-> <<PAYLOAD, GONE, <<"taken", "ALREADY_STARTED">>>>]

DenoPaths == [nextPath |-> <<PAYLOAD, EP>>, unsubscribePath |-> <<PAYLOAD, EP>>]

---------------------------------------------------------------------------
(* Tauri.  Arguments of a wrong type fail before the command runs.          *)

TauriEndpoint == [
    create |-> coerce_endpoint_options \o <<<<"key", "plain">>>>,
    close  |-> <<EP>>]

TauriIntrospection == [
    addr |-> <<EP>>, ticket |-> <<EP>>, homeRelay |-> <<EP>>, discoveryInfo |-> <<EP>>,
    peerInfo |-> <<EP>>, peerStats |-> <<EP>>, stats |-> <<EP>>]

TauriBodies == [
    nextChunk |-> <<EP>>, tryNextChunk |-> <<EP>>,
    sendChunk |-> <<<<"payload", "INVALID_INPUT">>, HANDLE, EP, <<"bytes", "INVALID_INPUT">>>>,
    finishBody |-> <<EP>>, cancelRequest |-> <<EP>>,
    allocBody |-> <<EP>>, allocToken |-> <<EP>>, cancelInFlight |-> <<EP>>]

TauriFetch == [fetch |-> <<EP>> \o coerce_fetch_options \o <<<<"addr", "plain">>>>]

TauriServe == [
    serve |-> <<EP>> \o coerce_serve_options,
    stopServe |-> <<EP>>, waitServeStop |-> <<EP>>, waitClosed |-> <<GONE>>,
    respond |-> <<EP, B("headers")>>]

TauriSessions == [
    connect |-> <<EP, <<"addr", "INVALID_INPUT">>>>,
    accept |-> <<EP>>, createBidi |-> <<EP>>, nextBidi |-> <<EP>>, closeSession |-> <<EP>>]

TauriStreams == [
    closed |-> <<EP>>, createUni |-> <<EP>>, nextUni |-> <<EP>>,
    sendDatagram |-> <<EP, <<"bytes", "plain">>>>, recvDatagram |-> <<EP>>, maxDatagram |-> <<EP>>]

TauriEvents == [events |-> <<EP, <<"taken", "ALREADY_STARTED">>>>]

TauriPaths == [nextPath |-> <<EP>>, unsubscribePath |-> <<EP>>]
---------------------------------------------------------------------------

Commands == [
    node |-> NodeEndpoint @@ NodeIntrospection @@ NodeBodies @@ NodeFetch @@ NodeServe @@ NodeWaits
             @@ NodeSessions @@ NodeStreams @@ NodeEvents @@ NodePaths,
    deno |-> DenoEndpoint @@ DenoIntrospection @@ DenoBodies @@ DenoChunks @@ DenoFetch
             @@ DenoServeCommands @@ DenoSessions @@ DenoStreams @@ DenoEvents @@ DenoPaths,
    tauri |-> TauriEndpoint @@ TauriIntrospection @@ TauriBodies @@ TauriFetch @@ TauriServe
             @@ TauriSessions @@ TauriStreams @@ TauriEvents @@ TauriPaths]

Adapters == DOMAIN Commands

\* The answer to a call with these wrong inputs (a function from input to class):
\* that of the first check that fails, or "run" when the command reaches the core.
AnswerOf(adp, cmd, wrong) ==
    LET row == Commands[adp][cmd]
        hit == {i \in DOMAIN row : row[i][1] \in DOMAIN wrong}
    IN  IF hit = {} THEN "run"
        ELSE LET c == row[CHOOSE i \in hit : \A j \in hit : i <= j]
             IN  IF c[2] = "bounds" THEN BoundsCode(c[1], wrong[c[1]]) ELSE c[2]

CommonCommands == {cmd \in DOMAIN Commands.node : \A a \in Adapters : cmd \in DOMAIN Commands[a]}

\* The inputs that reach all three adapters in the same form.
SharedInputs == {"ep", "nodeId", "url", "method", "addrs", "headers", "level"} \cup Numbers

Agree(cmd, wrong) == \A a, b \in Adapters : AnswerOf(a, cmd, wrong) = AnswerOf(b, cmd, wrong)

---------------------------------------------------------------------------
(* A call, for the check over all commands.                                *)

VARIABLE call    \* a command and one or two inputs that are wrong with it

NoCall == [cmd |-> "none", wrong |-> <<>>]

\* The shared inputs that some adapter checks in this command.
Checked(cmd) ==
    {i \in SharedInputs : \E a \in Adapters : \E n \in DOMAIN Commands[a][cmd] : Commands[a][cmd][n][1] = i}

CallInit ==
    \E cmd \in CommonCommands : \E i, j \in Checked(cmd) : \E c \in Classes(i) : \E d \in Classes(j) :
        call = [cmd |-> cmd, wrong |-> (i :> c) @@ (j :> d)]

\* Where they differ: only Node bounds a node id and the addresses outside fetch,
\* and a stop, a chunk or an event subscription on an endpoint that is gone is an
\* error in some and nothing to do in others.
Differences ==
    {<<"connect", "nodeId">>, <<"connect", "addrs">>, <<"nextPath", "nodeId">>,
     <<"unsubscribePath", "nodeId">>, <<"stopServe", "ep">>, <<"events", "ep">>,
     <<"tryNextChunk", "ep">>}

\* The three adapters answer a call alike, whichever of its inputs are wrong and
\* although each checks them in an order of its own (the commands of the Node,
\* Deno and Tauri adapters over coerce_fetch_options, coerce_serve_options and
\* coerce_endpoint_options); the differences listed are real ones.
AdaptersAgree ==
    call # NoCall =>
        LET diff == {i \in DOMAIN call.wrong : <<call.cmd, i>> \in Differences}
        IN  /\ diff = {} => Agree(call.cmd, call.wrong)
            /\ diff # {} /\ Cardinality(DOMAIN call.wrong) = 1 => ~Agree(call.cmd, call.wrong)
=============================================================================
