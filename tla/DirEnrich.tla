----------------------------- MODULE DirEnrich -----------------------------
(***************************************************************************)
(* What query_directory reports of one entry (QueryDir::enrich,            *)
(* src/uring_fs/query_dir.rs): its statx, the attributes asked for by name,*)
(* the ACL and the attributes discovered on the file, each a request of    *)
(* its own that may not be submitted, may be lost, or may be refused.  The *)
(* entry says of itself whether something it should hold is missing.       *)
(***************************************************************************)
EXTENDS Integers, FiniteSets

CONSTANTS
  Specs,          \* the EnrichSpecs: subsets of {"STATX", "XATTR", "ACL", "LIST"}
  SizeRetries,    \* XATTR_SIZE_RETRIES
  None

VARIABLE de

\* One attribute of each kind: the named one, the ACL, and one to discover.
Attrs == {"named", "acl", "found"}
Namespace(a) == IF a = "acl" THEN "system" ELSE "user"
Dtypes == {"reg", "fifo", "lnk", "unknown"}

\* The kernel's rule on which file can hold what (external).
CanHold(type, a) ==
  \/ type = "reg"
  \/ type = "fifo" /\ Namespace(a) # "user"

\* unresolved_statx_verdict, open_failure_is_incompleteness
StatxRefusal(r) == r \in {"denied"}
OpenIsIncompleteness(r) == r # "denied"

\* asked_for_what_this_type_can_hold
AskedOfType(e) ==
  \/ e.dtype \in {"reg", "unknown"}
  \/ "ACL" \in e.spec /\ e.dtype # "lnk"
  \/ "LIST" \in e.spec /\ e.want # {"user"}

WantsFd(e) == e.spec \cap {"XATTR", "ACL", "LIST"} # {}

\* discover_names: the names of the wanted namespaces not fetched already.
DiscoverNames(e) ==
  {a \in e.held : /\ Namespace(a) \in e.want
                  /\ ~("XATTR" \in e.spec /\ a = "named")
                  /\ ~("ACL" \in e.spec /\ a = "acl")}

\* The attributes read by name, and what a read of one can come to: "none" was
\* never submitted, "short" is ERANGE or E2BIG, "refused" the errnos of Drop.
ByName(e) == (IF "XATTR" \in e.spec THEN {"named"} ELSE {})
             \cup (IF "ACL" \in e.spec THEN {"acl"} ELSE {})
ReadOutcomes(e, a) ==
  {"none", "lost"} \cup (IF a \in e.held THEN {"got", "short", "refused"} ELSE {"nodata"})

Asked(e) == ByName(e) \cup (IF "LIST" \in e.spec THEN DiscoverNames(e) ELSE {})

\* cross_dev: nothing to compare, where the fstat of the directory failed (dev
\* is FALSE) or the entry has no statx
CrossDev(e, s) == e.dev /\ s = "other"
Early(e, s) == e.confined /\ CrossDev(e, s)

-----------------------------------------------------------------------------
EnrichInit ==
  \E spec \in Specs, confined, dev \in BOOLEAN, dtype \in Dtypes, want \in {{"user"}, {"user", "system"}},
     type \in {"reg", "fifo", "lnk"}, held \in SUBSET Attrs :
    /\ dtype \in {type, "unknown"}
    /\ \A a \in held : CanHold(type, a)
    /\ de = [spec |-> spec, confined |-> confined, dev |-> dev, dtype |-> dtype,
             want |-> want, held |-> held, at |-> "request",
             statx |-> None, open |-> None, listed |-> TRUE,
             todo |-> {}, got |-> {}, refused |-> {}, growing |-> None, tries |-> 0,
             incomplete |-> FALSE, result |-> None]

Statxed == {"same", "other", "denied", "failed"}

\* The first pass: a statx by name when no descriptor will be had, else an open.
\* A symlink is refused with ELOOP, which counts as "denied".
EnrichRequest ==
  /\ de.at = "request"
  /\ \E s \in IF "STATX" \in de.spec /\ ~WantsFd(de) THEN Statxed \cup {None} ELSE {None},
       o \in IF WantsFd(de) THEN {"ok", "denied", "failed", None} ELSE {None} :
       de' = [de EXCEPT !.statx = s, !.open = o,
                !.at = IF Early(de, s) THEN "done" ELSE "read",
                !.result = IF Early(de, s) THEN "omitted" ELSE None]

\* The second pass: the statx of the file, or again by name where there is none,
\* and with a descriptor every read.
ReadStart(e, listed, s) ==
  [e EXCEPT !.statx = IF s = None THEN @ ELSE s, !.listed = listed,
            !.todo = IF e.open = "ok"
                     THEN ByName(e) \cup (IF "LIST" \in e.spec /\ listed
                                          THEN DiscoverNames(e) ELSE {})
                     ELSE {},
            !.incomplete = \/ e.open = "ok" /\ "LIST" \in e.spec /\ ~listed
                           \/ /\ WantsFd(e) /\ e.open # "ok"
                              /\ OpenIsIncompleteness(e.open) /\ AskedOfType(e),
            !.at = "values"]

EnrichRead ==
  /\ de.at = "read"
  /\ \E listed \in BOOLEAN,
       s \in IF "STATX" \in de.spec /\ de.statx \notin {"same", "other"} THEN Statxed \cup {None} ELSE {None} :
       de' = ReadStart(de, listed, s)

\* The third pass takes the outcomes, one attribute at a time.
ValueLoses(e, a, r) ==
  [e EXCEPT !.todo = @ \ {a},
            !.got = IF r = "got" THEN @ \cup {a} ELSE @,
            !.refused = IF r = "refused" THEN @ \cup {a} ELSE @,
            !.growing = IF r = "short" THEN a ELSE None]

ValueOf(e, a, r) ==
  [e EXCEPT !.todo = @ \ {a},
            !.got = IF r = "got" THEN @ \cup {a} ELSE @,
            !.refused = IF r = "refused" THEN @ \cup {a} ELSE @,
            !.growing = IF r = "short" THEN a ELSE None,
            !.incomplete = @ \/ r \in {"lost", "none"}]

EnrichValue ==
  /\ de.at = "values" /\ de.growing = None
  /\ \E a \in de.todo : \E r \in ReadOutcomes(de, a) : de' = ValueOf(de, a, r)

\* refetch_grow: ask the size, read with a buffer of it; a value that grew in
\* between is asked for again, a bounded number of times.
RefetchGrow ==
  /\ de.growing # None
  /\ \E r \in {"got", "short", "error"} :
       LET over == r = "error" \/ (r = "short" /\ de.tries + 1 >= SizeRetries)
       IN  de' = [de EXCEPT
                    !.got = IF r = "got" THEN @ \cup {de.growing} ELSE @,
                    !.growing = IF r = "short" /\ ~over THEN @ ELSE None,
                    !.tries = IF r = "short" /\ ~over THEN @ + 1 ELSE 0,
                    !.incomplete = @ \/ over]

\* The verdict on the entry: a confined listing leaves out another device's
\* entry, and fails when it could not tell.
EnrichDone ==
  /\ de.at = "values" /\ de.growing = None /\ de.todo = {}
  /\ LET strict == de.confined /\ "STATX" \in de.spec
         had    == de.statx \in {"same", "other"}
     IN  de' = [de EXCEPT !.at = "done",
                  !.result = IF strict /\ ~had /\ ~StatxRefusal(de.statx) THEN "error"
                             ELSE IF strict /\ (~had \/ CrossDev(de, de.statx)) THEN "omitted"
                             ELSE "kept"]

EnrichNext == EnrichRequest \/ EnrichRead \/ EnrichValue \/ RefetchGrow \/ EnrichDone

-----------------------------------------------------------------------------
\* An entry that does not say it is incomplete shows every attribute the caller
\* asked for and the file holds, save those the kernel refused to this identity;
\* and a confined listing drops an entry without an error only when the entry
\* is another device's or was refused, and keeps one only when it has its
\* metadata, of its own device wherever the directory's device is known.
EnrichHonest ==
  de.at = "done" =>
    /\ de.result = "kept" /\ ~de.incomplete =>
         \A a \in Asked(de) \cap de.held :
           a \in de.got \cup de.refused \/ de.open = "denied"
    /\ de.result = "omitted" => de.confined /\ de.statx \in {"other", "denied"}
    /\ de.result = "kept" /\ de.confined /\ "STATX" \in de.spec =>
         de.statx \in {"same", "other"} /\ (de.dev => de.statx = "same")
=============================================================================
