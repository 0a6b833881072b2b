------------------------------ MODULE PageMap ------------------------------
(***************************************************************************)
(* What map and unmap promise (include/hal.h): an address space is a       *)
(* partial function from virtual pages to a frame with flags.  A request   *)
(* to map n pages from v on to the frames from p on adds them one by one,  *)
(* each with its own frame and the flags of the request; a request to      *)
(* unmap removes them; and nothing else changes the address space.  Page   *)
(* tables do not appear.  A request that cannot go on (a page that is      *)
(* mapped already, or is not mapped) never ends: the kernel panics.        *)
(***************************************************************************)
EXTENDS Integers

CONSTANTS Pages,      \* the virtual pages that callers map
          After,      \* the page that follows each of them
          Requests    \* the requests that callers make

VARIABLES mapping, request

NoRequest == [op |-> "none"]

Init ==
    /\ mapping = <<>>
    /\ request = NoRequest

Ask ==
    /\ request = NoRequest
    /\ request' \in Requests
    /\ UNCHANGED mapping

(* The flags of a page: a copy-on-write page is not writable.              *)
Granted(flags) ==
    {"present"} \cup {f \in flags : f = "write" => "cow" \notin flags}

Map ==
    /\ request.op = "map" /\ request.n > 0
    /\ request.v \in Pages \ DOMAIN mapping
    /\ mapping' = [w \in DOMAIN mapping \cup {request.v} |->
                      IF w = request.v
                      THEN [frame |-> request.p, flags |-> Granted(request.flags)]
                      ELSE mapping[w]]
    /\ request' = [request EXCEPT !.v = After[@], !.p = @ + 1, !.n = @ - 1]

Unmap ==
    /\ request.op = "unmap" /\ request.n > 0
    /\ request.v \in Pages \cap DOMAIN mapping
    /\ mapping' = [w \in DOMAIN mapping \ {request.v} |-> mapping[w]]
    /\ request' = [request EXCEPT !.v = After[@], !.n = @ - 1]

Answer ==
    /\ request.op \in {"map", "unmap"} /\ request.n = 0
    /\ request' = NoRequest
    /\ UNCHANGED mapping

Next == Ask \/ Map \/ Unmap \/ Answer

Spec == Init /\ [][Next]_<<mapping, request>>
=============================================================================
