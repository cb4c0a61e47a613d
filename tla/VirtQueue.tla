----------------------------- MODULE VirtQueue -----------------------------
(***************************************************************************)
(* The split virtqueue of virtio-drivers and the non-blocking requests of  *)
(* its block driver on top of it, with the device at the other end.        *)
(*                                                                         *)
(* The driver fills descriptors, puts the head of the chain in the         *)
(* available ring, publishes the ring's index and then decides whether to  *)
(* notify the device; each of the three is a step, because the device runs *)
(* at the same time.  Ring indices are counted modulo IdxMod (2^16).  A    *)
(* ring slot is set to 0 once its reader is done with it: it is rewritten  *)
(* before it is read again, so what was in it is left out of the state.    *)
(* Left out too is used_event, with which the driver asks for interrupts:  *)
(* it polls.  Steps take effect in order (sequential consistency).  The    *)
(* device is external: it may finish chains in any order.                  *)
(***************************************************************************)
EXTENDS Naturals, Sequences, SequencesExt, FiniteSets, FiniteSetsExt

CONSTANTS Setups,           \* the queues: their SIZE and whether indirect is set
          IdxMod,           \* ring indices wrap here; a multiple of SIZE
          Reqs, Kind,       \* the callers' request slots and their kinds
          Val, None

ASSUME SizesFit ==
  \A q \in Setups : /\ q.SIZE \in Nat \ {0} /\ IdxMod % q.SIZE = 0
                    /\ q.indirect \in BOOLEAN

VARIABLES SIZE,                         \* descriptors, and slots of each ring
          indirect, event_idx,          \* the negotiated features
          desc_shadow, desc,            \* descriptor tables: driver, device
          indirect_lists,               \* the list a descriptor points to
          free_head, num_used, avail_idx, last_used_idx,
          avail, used,                  \* the rings in shared memory
          pending,                      \* what the driver does next
          out,                          \* the callers' tokens: slot by head
          mem,                          \* contents of the callers' buffers
          notified, awake, last_avail, fetched, disk    \* the device

driverVars == <<desc_shadow, desc, indirect_lists, free_head, num_used,
                avail_idx, last_used_idx, avail, out>>
deviceVars == <<awake, last_avail, fetched, disk>>
setup == <<SIZE, indirect, event_idx>>
vars == <<setup, driverVars, used, deviceVars, pending, mem, notified>>

Desc == 0 .. (SIZE - 1)
Slot(idx) == idx % SIZE

\* A buffer of a request: the header, the data and the response, each with
\* the direction in which it is shared.
Buffer(r, part, write) == [req |-> r, part |-> part, write |-> write]

\* What read_blocks_nb and write_blocks_nb pass to add: inputs, then outputs
\* (InputOutputIter).
Buffers(r) ==
  CASE Kind[r] = "In"  -> <<Buffer(r, "header", FALSE),
                            Buffer(r, "data", TRUE), Buffer(r, "resp", TRUE)>>
    [] Kind[r] = "Out" -> <<Buffer(r, "header", FALSE),
                            Buffer(r, "data", FALSE), Buffer(r, "resp", TRUE)>>

-----------------------------------------------------------------------------
(* Creation: begin_init negotiates the features, VirtQueue::new links the    *)
(* descriptors                                                               *)

Unused(i) == [buf |-> None, flags |-> {}, next |-> i]

FreshDesc == [i \in Desc |-> Unused(IF i < SIZE - 1 THEN i + 1 ELSE 0)]

Init ==
  /\ \E q \in Setups : SIZE = q.SIZE /\ indirect = q.indirect
  /\ event_idx \in BOOLEAN
  /\ desc_shadow = FreshDesc /\ desc = FreshDesc
  /\ indirect_lists = [i \in Desc |-> <<>>]
  /\ free_head = 0 /\ num_used = 0 /\ avail_idx = 0 /\ last_used_idx = 0
  /\ avail = [idx |-> 0, ring |-> [s \in Desc |-> 0]]
  /\ used = [idx |-> 0, ring |-> [s \in Desc |-> 0],
             avail_event |-> 0, no_notify |-> FALSE]
  /\ pending = "none" /\ out = [h \in Desc |-> None]
  /\ mem = [r \in Reqs |-> None]
  /\ notified = FALSE /\ awake = "no" /\ last_avail = 0 /\ fetched = {}
  /\ disk \in Val

-----------------------------------------------------------------------------
(* VirtQueue::add *)

\* The n descriptors from head on, along next.
RECURSIVE Links(_, _, _)
Links(table, head, n) ==
  IF n = 0 THEN <<>> ELSE <<head>> \o Links(table, table[head].next, n - 1)

Flags(b, extra) == extra \cup (IF b.write THEN {"WRITE"} ELSE {})

\* set_buf for the n-th buffer of a chain: NEXT on every descriptor but the
\* last.
Filled(d, bufs, n) ==
  [d EXCEPT !.buf = bufs[n],
            !.flags = Flags(bufs[n], IF n < Len(bufs) THEN {"NEXT"} ELSE {})]

HasRoom(bufs) ==
  IF indirect THEN num_used + 1 <= SIZE /\ Len(bufs) <= SIZE
              ELSE num_used + Len(bufs) <= SIZE

\* One descriptor of the free list per buffer.
add_direct(bufs) ==
  LET chain == Links(desc_shadow, free_head, Len(bufs))
      shadow == [i \in Desc |-> IF Contains(chain, i)
                  THEN Filled(desc_shadow[i], bufs,
                              CHOOSE n \in DOMAIN chain : chain[n] = i)
                  ELSE desc_shadow[i]]
  IN /\ desc_shadow' = shadow
     /\ desc' = [i \in Desc |-> IF Contains(chain, i) THEN shadow[i] ELSE desc[i]]
     /\ free_head' = shadow[Last(chain)].next
     /\ num_used' = num_used + Len(bufs)
     /\ UNCHANGED indirect_lists

\* One descriptor, which points to a list of descriptors allocated for it.
add_indirect(bufs) ==
  LET list == [n \in DOMAIN bufs |-> Filled(Unused(n), bufs, n)]
      d == [desc_shadow[free_head] EXCEPT !.buf = None, !.flags = {"INDIRECT"}]
  IN /\ desc_shadow' = [desc_shadow EXCEPT ![free_head] = d]
     /\ desc' = [desc EXCEPT ![free_head] = d]
     /\ indirect_lists' = [indirect_lists EXCEPT ![free_head] = list]
     /\ free_head' = desc_shadow[free_head].next
     /\ num_used' = num_used + 1

\* The available ring with the head of a chain in its next slot.
PutAvail(head) == [avail EXCEPT !.ring[Slot(avail_idx)] = head]

\* read_blocks_nb and write_blocks_nb, up to the available ring: the request
\* and its buffers are the caller's until its token is popped.
Add(r) ==
  /\ pending = "none" /\ r \notin Range(out) /\ HasRoom(Buffers(r))
  /\ \E v \in (IF Kind[r] = "Out" THEN Val ELSE {None}) :
       mem' = [mem EXCEPT ![r] = v]
  /\ IF indirect THEN add_indirect(Buffers(r)) ELSE add_direct(Buffers(r))
  /\ out' = [out EXCEPT ![free_head] = r]
  /\ avail' = PutAvail(free_head)
  /\ pending' = "publish"
  /\ UNCHANGED <<setup, avail_idx, last_used_idx, used, deviceVars, notified>>

\* The rest of add, after the write barrier.
Publish ==
  /\ pending = "publish"
  /\ avail_idx' = (avail_idx + 1) % IdxMod
  /\ avail' = [avail EXCEPT !.idx = avail_idx']
  /\ pending' = "notify"
  /\ UNCHANGED <<setup, desc_shadow, desc, indirect_lists, free_head, num_used,
                 last_used_idx, out, used, deviceVars, mem, notified>>

should_notify ==
  IF event_idx THEN avail_idx >= (used.avail_event + 1) % IdxMod
               ELSE ~used.no_notify

Notify ==
  /\ pending = "notify"
  /\ notified' = (notified \/ should_notify)
  /\ pending' = "none"
  /\ UNCHANGED <<setup, driverVars, used, deviceVars, mem>>

-----------------------------------------------------------------------------
(* VirtQueue::pop_used *)

can_pop == last_used_idx # used.idx

\* The chain that starts at head, up to a descriptor without NEXT.
RECURSIVE Chain(_, _)
Chain(table, head) ==
  IF "NEXT" \in table[head].flags
  THEN <<head>> \o Chain(table, table[head].next) ELSE <<head>>

\* unset_buf; the last descriptor of the chain is linked to the free list.
Recycled(chain) ==
  [i \in Desc |->
     IF ~Contains(chain, i) THEN desc_shadow[i]
     ELSE [desc_shadow[i] EXCEPT
             !.buf = None,
             !.next = IF i = Last(chain) THEN free_head ELSE @]]

\* Faulty variant: the recycled chain is not linked to the free list.
recycle_unlinked(head) ==
  LET chain == Chain(desc_shadow, head)
      shadow == [i \in Desc |-> IF Contains(chain, i)
                   THEN [desc_shadow[i] EXCEPT !.buf = None] ELSE desc_shadow[i]]
  IN /\ free_head' = head
     /\ desc_shadow' = shadow
     /\ desc' = [i \in Desc |-> IF Contains(chain, i) THEN shadow[i] ELSE desc[i]]
     /\ num_used' = num_used - Len(chain)
     /\ UNCHANGED indirect_lists

recycle_descriptors(head) ==
  /\ free_head' = head
  /\ \/ /\ "INDIRECT" \in desc_shadow[head].flags
        /\ desc_shadow' = [desc_shadow EXCEPT ![head].next = free_head]
        /\ indirect_lists' = [indirect_lists EXCEPT ![head] = <<>>]
        /\ num_used' = num_used - 1
        /\ UNCHANGED desc
     \/ LET chain == Chain(desc_shadow, head) IN
          /\ "INDIRECT" \notin desc_shadow[head].flags
          /\ desc_shadow' = Recycled(chain)
          /\ desc' = [i \in Desc |-> IF Contains(chain, i)
                                     THEN desc_shadow'[i] ELSE desc[i]]
          /\ num_used' = num_used - Len(chain)
          /\ UNCHANGED indirect_lists

\* Faulty variant: the token is not compared with the next used element.
Pop_unchecked(token) ==
  /\ pending = "none" /\ can_pop
  /\ out[token] # None
  /\ recycle_descriptors(token)
  /\ last_used_idx' = (last_used_idx + 1) % IdxMod
  /\ used' = [used EXCEPT !.ring[Slot(last_used_idx)] = 0]
  /\ out' = [out EXCEPT ![token] = None]
  /\ mem' = [mem EXCEPT ![out[token]] = None]
  /\ UNCHANGED <<setup, avail_idx, avail, deviceVars, pending, notified>>

\* complete_read_blocks and complete_write_blocks: the caller gives the token
\* of the next used element (peek_used) and the buffers that belong to it.  A
\* token that is not next is refused (WrongToken) and nothing changes.
Pop(token) ==
  /\ pending = "none" /\ can_pop
  /\ used.ring[Slot(last_used_idx)] = token
  /\ recycle_descriptors(token)
  /\ last_used_idx' = (last_used_idx + 1) % IdxMod
  /\ used' = [used EXCEPT !.ring[Slot(last_used_idx)] = 0]
  /\ out' = [out EXCEPT ![token] = None]
  /\ mem' = [mem EXCEPT ![out[token]] = None]
  /\ UNCHANGED <<setup, avail_idx, avail, deviceVars, pending, notified>>

-----------------------------------------------------------------------------
(* The device: it runs when notified, takes chains in the order of the       *)
(* available ring, finishes them in any order, and asks to be notified       *)
(* before it rests                                                           *)

driverUnchanged == UNCHANGED <<setup, driverVars, pending>>

DeviceWake ==
  /\ awake = "no" /\ notified
  /\ awake' = "yes" /\ notified' = FALSE
  /\ used' = [used EXCEPT !.no_notify = TRUE]
  /\ driverUnchanged /\ UNCHANGED <<last_avail, fetched, disk, mem>>

\* The buffers of a chain as the device sees them.
BuffersAt(head) ==
  IF "INDIRECT" \in desc[head].flags
  THEN [n \in DOMAIN indirect_lists[head] |-> indirect_lists[head][n].buf]
  ELSE LET chain == Chain(desc, head) IN [n \in DOMAIN chain |-> desc[chain[n]].buf]

DeviceFetch ==
  /\ awake = "yes" /\ last_avail # avail.idx
  /\ LET head == avail.ring[Slot(last_avail)] IN
       fetched' = fetched \cup {[head |-> head, bufs |-> BuffersAt(head)]}
  /\ last_avail' = (last_avail + 1) % IdxMod
  /\ avail' = [avail EXCEPT !.ring[Slot(last_avail)] = 0]
  /\ UNCHANGED <<setup, desc_shadow, desc, indirect_lists, free_head, num_used,
                 avail_idx, last_used_idx, out, pending, used, awake, disk,
                 notified, mem>>

\* A chain is carried out as its header says, on its data buffer.
DeviceUse(f) ==
  LET r == f.bufs[1].req
      d == {b.req : b \in {x \in Range(f.bufs) : x.part = "data"}}
  IN /\ awake = "yes"
     /\ disk' = IF Kind[r] = "Out" THEN mem[CHOOSE x \in d : TRUE] ELSE disk
     /\ mem' = IF Kind[r] = "In" THEN [x \in Reqs |-> IF x \in d THEN disk ELSE mem[x]]
                                 ELSE mem
     /\ used' = [used EXCEPT !.ring[Slot(used.idx)] = f.head,
                             !.idx = (@ + 1) % IdxMod]
     /\ fetched' = fetched \ {f}
     /\ driverUnchanged /\ UNCHANGED <<awake, last_avail, notified>>

\* The device asks for a notification of the next chain, then looks once more
\* at the available ring.
DeviceArm ==
  /\ awake = "yes" /\ fetched = {} /\ last_avail = avail.idx
  /\ used' = [used EXCEPT !.avail_event = last_avail, !.no_notify = FALSE]
  /\ awake' = "arming"
  /\ driverUnchanged /\ UNCHANGED <<last_avail, fetched, disk, notified, mem>>

DeviceRest ==
  /\ awake = "arming"
  /\ IF last_avail = avail.idx
     THEN awake' = "no" /\ UNCHANGED used
     ELSE awake' = "yes" /\ used' = [used EXCEPT !.no_notify = TRUE]
  /\ driverUnchanged /\ UNCHANGED <<last_avail, fetched, disk, notified, mem>>

-----------------------------------------------------------------------------

Driver == \/ \E r \in Reqs : Add(r)
          \/ Publish \/ Notify
          \/ \E h \in Desc : Pop(h)

Device == \/ DeviceWake \/ DeviceFetch \/ DeviceArm \/ DeviceRest
          \/ \E f \in fetched : DeviceUse(f)

Next == Driver \/ Device

\* A call of the driver runs to its end, callers ask for their completions,
\* and the device serves every chain it has taken.
Spec == /\ Init /\ [][Next]_vars
        /\ WF_vars(Publish) /\ WF_vars(Notify)
        /\ WF_vars(\E h \in Desc : Pop(h))
        /\ WF_vars(DeviceWake) /\ WF_vars(DeviceFetch) /\ WF_vars(DeviceArm)
        /\ WF_vars(DeviceRest)
        /\ \A r \in Reqs : WF_vars(\E f \in fetched : f.bufs[1].req = r /\ DeviceUse(f))

-----------------------------------------------------------------------------
(* Properties *)

Outstanding == {h \in Desc : out[h] # None}

\* The descriptors of a chain in the driver's table.
ChainSet(h) == Range(Chain(desc_shadow, h))

\* Every descriptor is either on the free list, which is as long as num_used
\* says, or in the chain of exactly one token, and a chain is as long as the
\* request it carries: neither of the panics of recycle_descriptors on a
\* chain that is too short or too long can happen, and neither can add's
\* assertion that no indirect list is left.
DescriptorsConserved ==
  LET free == Links(desc_shadow, free_head, SIZE - num_used) IN
    /\ IsInjective(free)
    /\ \A h \in Outstanding :
         /\ ChainSet(h) \cap Range(free) = {}
         /\ \A g \in Outstanding \ {h} : ChainSet(h) \cap ChainSet(g) = {}
         /\ IF indirect THEN Len(indirect_lists[h]) = Len(Buffers(out[h]))
                        ELSE Cardinality(ChainSet(h)) = Len(Buffers(out[h]))
    /\ UNION {ChainSet(h) : h \in Outstanding} \cup Range(free) = Desc
    /\ \A h \in Desc \ Outstanding : indirect_lists[h] = <<>>

\* While the device works on a chain, the chain it took is that of a token the
\* driver still holds, with the buffers of that request in their order: the
\* driver publishes nothing it has not written and reuses nothing in flight.
DeviceReadsRequests ==
  \A f \in fetched : /\ out[f.head] # None
                     /\ f.bufs = Buffers(out[f.head])

\* Descriptors are neither lost nor shared, and the device only sees requests
\* that are complete.
QueueSound == DescriptorsConserved /\ DeviceReadsRequests

\* The used elements the driver has not popped.
UsedHeads ==
  LET n == (used.idx + IdxMod - last_used_idx) % IdxMod
  IN {used.ring[Slot(last_used_idx + k)] : k \in 0 .. (n - 1)}

PhaseOf(r) == IF r \notin Range(out) THEN "idle"
              ELSE IF \E h \in UsedHeads : out[h] = r THEN "served"
              ELSE "submitted"

\* The queue implements the driver's promise: each request is carried out
\* once, with its own data, and reported once; no notification the device
\* needs is lost, so none waits for ever, also when the indices wrap.
Requests == INSTANCE BlockRequests
              WITH phase <- [r \in Reqs |-> PhaseOf(r)], data <- mem
RequestsSpec == Requests!Spec

=============================================================================
