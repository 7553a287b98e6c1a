----------------------------- MODULE OnlineUsers -----------------------------
(***************************************************************************)
(* The list of online users (internal/service/online.go): the sessions are *)
(* gathered by SCAN and MGET, batch after batch, while users come and go,  *)
(* up to a limit; then filtered, put in order and cut into pages.          *)
(*                                                                         *)
(* SCAN promises little: what is there from its first call to its last is  *)
(* returned at least once, and what comes or goes in between may be or     *)
(* not; a batch may be empty, and bring again what an earlier one brought. *)
(***************************************************************************)
EXTENDS Integers, FiniteSets, Sequences, SequencesExt

CONSTANTS
    Sessions,    \* numbers, in the order of the list: newest login first, then token
    MaxScan,     \* maxOnlineScan
    OnlineSizes

ASSUME OnlineAssumption ==
    /\ Sessions \subseteq Int /\ IsFiniteSet(Sessions)
    /\ MaxScan \in Nat /\ OnlineSizes \subseteq Nat \ {0}

VARIABLES
    live,        \* the sessions that are stored
    listing      \* the request

onlineVars == <<live, listing>>

\* Those that match the query and can be parsed; how far the scan is; the batch that
\* is to be read, and what is done after it; the list; and, to say what is
\* promised of it, what was there all the time and what SCAN has returned.
NoListing == [at |-> "rest", wanted |-> {}, batch |-> {}, next |-> "scan", processed |-> 0,
              list |-> << >>, throughout |-> {}, returned |-> {}]

OnlineInit == live \in SUBSET Sessions /\ listing = NoListing

ListingGoes(changes) == listing' = changes

-----------------------------------------------------------------------------
ListOnlineUsers(wanted) ==
    /\ listing.at \in {"rest", "complete", "truncated"}
    /\ ListingGoes([NoListing EXCEPT !.at = "scan", !.wanted = wanted, !.throughout = live])
    /\ UNCHANGED live

\* scanKeyBatchesBounded: what goes beyond the limit is cut off.
scanKeyBatchesBounded(keys, last) ==
    LET remaining == MaxScan - listing.processed
        returned == listing.returned \cup keys
    IN
    /\ listing.at = "scan"
    /\ last => listing.throughout \subseteq returned
    /\ \E kept \in SUBSET keys :
         /\ IF Cardinality(keys) > remaining THEN Cardinality(kept) = remaining ELSE kept = keys
         /\ LET processed == listing.processed + Cardinality(kept)
                next == CASE kept # keys \/ (processed >= MaxScan /\ ~last) -> "truncated"
                          [] last /\ kept = keys -> "complete"
                          [] OTHER -> "scan"
            IN ListingGoes([listing EXCEPT !.at = "read", !.batch = kept, !.next = next,
                                  !.processed = processed, !.returned = returned])
    /\ UNCHANGED live

\* MGET misses what has gone since the SCAN.
scanLoginUserEntries(keys) == keys \cap live

\* Those that match, and can be parsed.
collectOnlineUsers ==
    /\ listing.at = "read"
    /\ ListingGoes([listing EXCEPT !.at = listing.next, !.batch = {},
             !.list = @ \o SetToSeq(scanLoginUserEntries(listing.batch) \cap listing.wanted)])
    /\ UNCHANGED live

\* A failing call of Redis ends it with an error.
FailListing == listing.at \in {"scan", "read"} /\ ListingGoes(NoListing) /\ UNCHANGED live

LogIn(s) == s \notin live /\ live' = live \cup {s} /\ UNCHANGED listing

\* ForceLogout, a logout, an expiry or a revocation.
ForceLogout(s) ==
    /\ s \in live
    /\ live' = live \ {s}
    /\ ListingGoes([listing EXCEPT !.throughout = @ \ {s}])

OnlineNext ==
    \/ \E wanted \in SUBSET Sessions : ListOnlineUsers(wanted)
    \/ \E keys \in SUBSET live, last \in BOOLEAN : scanKeyBatchesBounded(keys, last)
    \/ collectOnlineUsers \/ FailListing
    \/ \E s \in Sessions : LogIn(s) \/ ForceLogout(s)

OnlineSpec == OnlineInit /\ [][OnlineNext]_onlineVars

-----------------------------------------------------------------------------
\* sort.Slice: at a position is the session with fewer before it, and enough up to it.
newestFirst(list) ==
    [k \in 1..Len(list) |->
        CHOOSE s \in ToSet(list) : /\ Cardinality({i \in DOMAIN list : list[i] < s}) < k
                                  /\ Cardinality({i \in DOMAIN list : list[i] <= s}) >= k]

\* paginateOnlineUsers: the page of a number, from 1.
paginateOnlineUsers(list, number, size) ==
    LET sorted == newestFirst(list)
        offset == (number - 1) * size
    IN SubSeq(sorted, offset + 1, IF offset + size > Len(sorted) THEN Len(sorted) ELSE offset + size)

-----------------------------------------------------------------------------
OnlineTypeOK ==
    /\ live \subseteq Sessions
    /\ listing.at \in {"rest", "scan", "read", "complete", "truncated"}
    /\ listing.next \in {"scan", "complete", "truncated"}
    /\ listing.batch \cup listing.wanted \cup listing.throughout \cup listing.returned \subseteq Sessions
    /\ listing.processed \in 0..MaxScan
    /\ listing.list \in BoundedSeq(Sessions, MaxScan)

\* A list that is not said to be cut short has everyone who was online from its
\* first call to its last and matches, whatever else came and went
\* (redisx.go:112, online.go:31), and never more than the limit; its pages,
\* one after the other, are the whole list, newest first.
OnlineListed ==
    LET list == listing.list
        pages(size) == [n \in 1..(Len(list) + size - 1) \div size |-> paginateOnlineUsers(list, n, size)]
    IN
    /\ listing.at = "complete" => listing.throughout \cap listing.wanted \subseteq ToSet(list)
    /\ Len(list) <= MaxScan
    /\ \A size \in OnlineSizes : FlattenSeq(pages(size)) = newestFirst(list)

=============================================================================
