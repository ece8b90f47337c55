---------------------------- MODULE AddressSpace ----------------------------
(***************************************************************************)
(* What memory::object promises its callers, with no block list, no free   *)
(* blocks and no next_address_: a set of live regions of the address       *)
(* space.  A region is handed out where nothing is live, is given back as  *)
(* a whole, and a resized region keeps at least one byte and never grows   *)
(* over another one.  The first byte of the address space is the null      *)
(* region: it is live from the start and is never given back.              *)
(***************************************************************************)
EXTENDS Naturals

CONSTANT MaxAddress    \* the greatest value of std::size_t

VARIABLE live          \* the regions in use

Region == [address : 0 .. MaxAddress, size : 1 .. MaxAddress]

Null == [address |-> 0, size |-> 1]

Apart(r, s) == \/ r.address + r.size <= s.address
               \/ s.address + s.size <= r.address

FreeFor(r, others) == /\ r.address + r.size <= MaxAddress
                      /\ \A s \in others : Apart(r, s)
-----------------------------------------------------------------------------
Init == live = {Null}

Reserve == \E r \in Region : /\ FreeFor(r, live)
                             /\ live' = live \cup {r}

Release == \E r \in live \ {Null} : live' = live \ {r}

Resize == \E r \in live \ {Null}, s \in Region :
            /\ FreeFor(s, live \ {r})
            /\ live' = (live \ {r}) \cup {s}

Next == Reserve \/ Release \/ Resize

Spec == Init /\ [][Next]_live
=============================================================================
