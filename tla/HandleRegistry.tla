--------------------------- MODULE HandleRegistry ---------------------------
(***************************************************************************)
(* One registry of the handle store (ffi/handles.rs): a slot map behind a  *)
(* mutex, whose keys cross the FFI boundary as u64 handles.  A key is a    *)
(* slot and the version of the slot when the entry was inserted; every     *)
(* insertion and every removal advances the version.  Entries are removed  *)
(* by their holder, or by the sweep once nobody used them for longer than  *)
(* the TTL; a sweep that leaves a grown registry empty replaces the map by *)
(* a new one, whose versions start again.                                  *)
(*                                                                         *)
(* Resources are numbered in the order of their insertion.  Which vacant   *)
(* slot is used again is left open.                                        *)
(***************************************************************************)
EXTENDS Integers, FiniteSets

CONSTANTS
    MaxHandles,      \* StoreConfig::max_handles
    CompactAt,       \* slots at which capacity() exceeds 128 (128 in the code)
    Ttl,             \* StoreConfig::ttl, in ticks
    VersionModulus,  \* 2^32: versions are u32 and wrap around
    Touches,         \* whether a lookup refreshes last_accessed
    MaxInserts       \* bound on insertions

ASSUME RegistryAssumption ==
    /\ MaxHandles \in Nat \ {0}
    /\ CompactAt \in Nat \ {0}
    /\ Ttl \in Nat
    /\ MaxInserts \in Nat
    /\ VersionModulus \in Nat
    /\ 2 * MaxInserts < VersionModulus
    /\ Touches \in BOOLEAN

VARIABLES
    size,        \* slots allocated so far
    version,     \* the version of each slot
    occupied,    \* the slots that hold an entry
    content,     \* the resource in an occupied slot
    inserted,    \* number of resources inserted so far
    handle,      \* the handle returned for each resource
    epoch,       \* number of times the map was replaced
    epochOf,     \* the epoch a resource was inserted in
    status,      \* what became of each resource
    age,         \* time since last_accessed, up to Ttl + 1
    unused       \* time since the resource was last looked up, up to Ttl + 1

slots == <<size, version, occupied, content>>
issue == <<inserted, handle, epochOf>>
clock == <<age, unused>>
registryVars == <<slots, issue, epoch, status, clock>>

Slots == 1..MaxHandles
Resources == 1..MaxInserts
Issued == 1..inserted
Ages == 0..(Ttl + 1)
Handles == [slot : Slots, version : 0..(VersionModulus - 1)]
Nothing == 0

RegistryTypeOK ==
    /\ size \in 0..MaxHandles
    /\ version \in [Slots -> 0..(VersionModulus - 1)]
    /\ occupied \subseteq 1..size
    /\ content \in [Slots -> 0..MaxInserts]
    /\ inserted \in 0..MaxInserts
    /\ handle \in [Resources -> Handles]
    /\ epoch \in Nat
    /\ epochOf \in [Resources -> Nat]
    /\ status \in [Resources -> {"none", "live", "removed", "swept"}]
    /\ age \in [Resources -> Ages]
    /\ unused \in [Resources -> Ages]

RegistryInit ==
    /\ size = 0
    /\ version = [i \in Slots |-> 0]
    /\ occupied = {}
    /\ content = [i \in Slots |-> Nothing]
    /\ inserted = 0
    /\ handle = [r \in Resources |-> [slot |-> 1, version |-> 0]]
    /\ epoch = 0
    /\ epochOf = [r \in Resources |-> 0]
    /\ status = [r \in Resources |-> "none"]
    /\ age = [r \in Resources |-> 0]
    /\ unused = [r \in Resources |-> 0]

\* u32::wrapping_add(1)
NextVersion(v) == IF v = VersionModulus - 1 THEN 0 ELSE v + 1

\* SlotMap::get: the entry a handle leads to, if its version is current.
Find(h) ==
    IF h.slot \in occupied /\ version[h.slot] = h.version
       THEN content[h.slot] ELSE Nothing

\* A handle returned by insert_checked.
Known(r) == r \in Issued

-----------------------------------------------------------------------------
(* Insertion *)

\* reg.len() >= max is an error.
RegistryRoom == Cardinality(occupied) < MaxHandles

\* SlotMap::insert takes a vacant slot, or a new one when there is none.
Vacant == IF (1..size) \ occupied # {} THEN (1..size) \ occupied ELSE {size + 1}

\* The version an entry in slot i gets: a new slot starts at 1.
InsertVersion(i) == IF i > size THEN 1 ELSE NextVersion(version[i])

\* insert_checked
Insert ==
    /\ inserted < MaxInserts
    /\ RegistryRoom
    /\ \E i \in Vacant :
        LET r == inserted + 1
            v == InsertVersion(i)
        IN  /\ size' = IF i > size THEN i ELSE size
            /\ version' = [version EXCEPT ![i] = v]
            /\ occupied' = occupied \cup {i}
            /\ content' = [content EXCEPT ![i] = r]
            /\ inserted' = r
            /\ handle' = [handle EXCEPT ![r] = [slot |-> i, version |-> v]]
            /\ epochOf' = [epochOf EXCEPT ![r] = epoch]
            /\ status' = [status EXCEPT ![r] = "live"]
            /\ age' = [age EXCEPT ![r] = 0]
            /\ unused' = [unused EXCEPT ![r] = 0]
    /\ UNCHANGED epoch

-----------------------------------------------------------------------------
(* Use and removal by handle *)

\* Fault: the timestamp is set at insertion only.
AgeKept(q) == age

\* entry.touch(), in the lookups that call it
Touched(q) == IF Touches THEN [age EXCEPT ![q] = 0] ELSE age

\* next_chunk, try_next_chunk, send_chunk (which touch the entry);
\* lookup_session, get_fetch_cancel_notify, cancel_in_flight (which do not)
Use(r) ==
    LET q == Find(handle[r]) IN
    /\ Known(r)
    /\ q # Nothing
    /\ age' = Touched(q)
    /\ unused' = [unused EXCEPT ![q] = 0]
    /\ UNCHANGED <<slots, issue, epoch, status>>

\* SlotMap::remove advances the version of the vacated slot.
VersionsAfterRemoving(S) ==
    [i \in Slots |-> IF i \in S THEN NextVersion(version[i]) ELSE version[i]]

\* finish_body, cancel_reader, remove_session, take_req_sender,
\* remove_fetch_token, next_chunk at the end of the body
Remove(r) ==
    LET q == Find(handle[r])
        i == handle[r].slot
    IN  /\ Known(r)
        /\ q # Nothing
        /\ version' = VersionsAfterRemoving({i})
        /\ occupied' = occupied \ {i}
        /\ status' = [status EXCEPT ![q] = "removed"]
        /\ UNCHANGED <<size, content, issue, epoch, clock>>

-----------------------------------------------------------------------------
(* Time and the sweep *)

Older(t) == IF t > Ttl THEN t ELSE t + 1

Tick ==
    /\ age' = [r \in Resources |-> IF status[r] = "live" THEN Older(age[r]) ELSE age[r]]
    /\ unused' = [r \in Resources |-> IF status[r] = "live" THEN Older(unused[r]) ELSE unused[r]]
    /\ UNCHANGED <<slots, issue, epoch, status>>

\* is_expired: last_accessed.elapsed() > ttl
ExpiredSlots == {i \in occupied : age[content[i]] > Ttl}

\* reg.is_empty() && reg.capacity() > 128
Compacts(left) == left = {} /\ size >= CompactAt

\* sweep_registry and sweep_readers.  A sweep that finds nothing expired
\* returns at once.
Sweep ==
    LET left == occupied \ ExpiredSlots
        swept == {content[i] : i \in ExpiredSlots}
    IN  /\ ExpiredSlots # {}
        /\ IF Compacts(left)
              THEN /\ size' = 0
                   /\ version' = [i \in Slots |-> 0]
                   /\ occupied' = {}
                   /\ epoch' = epoch + 1
              ELSE /\ version' = VersionsAfterRemoving(ExpiredSlots)
                   /\ occupied' = left
                   /\ UNCHANGED <<size, epoch>>
        /\ status' = [r \in Resources |-> IF r \in swept THEN "swept" ELSE status[r]]
        /\ UNCHANGED <<content, issue, clock>>

RegistryNext ==
    \/ Insert
    \/ \E r \in Resources : Use(r) \/ Remove(r)
    \/ Tick
    \/ Sweep

RegistrySpec == RegistryInit /\ [][RegistryNext]_registryVars

\* Time passes, and the endpoint's background task sweeps again and again.
RegistryFairness == WF_registryVars(Tick) /\ WF_registryVars(Sweep)

RegistryFairSpec == RegistrySpec /\ RegistryFairness

-----------------------------------------------------------------------------
(* Properties *)

\* A live resource is found through the handle returned for it, whatever was
\* inserted, removed, swept or compacted since.
LiveReachable ==
    \A r \in Issued : status[r] = "live" => Find(handle[r]) = r

\* Between two compactions a handle leads to its own resource or nowhere:
\* the version in the key tells a slot's successive entries apart.
OwnResourceOrNone ==
    \A r \in Issued : epochOf[r] = epoch => Find(handle[r]) \in {r, Nothing}

\* The same without the restriction to one epoch, as the documentation puts
\* it: "the old handle can never silently alias a new resource".
NeverAliases ==
    \A r \in Issued : Find(handle[r]) \in {r, Nothing}

\* The sweep takes only entries nobody looked up for longer than the TTL:
\* last_accessed is "updated on every access so that actively-used handles
\* are not TTL-swept mid-transfer".
SweptOnlyWhenUnused ==
    [][\A r \in Resources :
          status[r] = "live" /\ status'[r] = "swept" => unused[r] > Ttl]_registryVars

=============================================================================
