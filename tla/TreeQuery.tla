----------------------------- MODULE TreeQuery -----------------------------
(***************************************************************************)
(* The ordered directory listing and the resumable tree walk over it       *)
(* (src/uring_fs/query_dir.rs, query_tree.rs).  A name is a sequence of    *)
(* bytes and the walk promises the order of whole path strings, in which a *)
(* directory sorts where its slash puts it.  The tree changes under the    *)
(* walk, opens and stats fail, and a page may end at any entry: the next   *)
(* one starts from the cursor's key.                                       *)
(***************************************************************************)
EXTENDS Integers, Sequences, SequencesExt, FiniteSets

CONSTANTS
  Tree0,     \* the tree at the start: a set of [path, dir]
  Late,      \* entries that may be created while the walk is under way
  Slash,     \* the byte '/': other bytes sort before and after it
  Prefix,    \* name_prefix: kept names start with it (root level only)
  Clump,     \* entries enriched at a time, at least 1
  Depths,    \* the max_depth values a page may ask for, at least 1
  MaxChanges,
  None

VARIABLE tw

-----------------------------------------------------------------------------
\* Byte order, and the order of Order::ByPathBytes: a directory's name is
\* compared as if it ended in a slash.
BytesLess(a, b) ==
  \E i \in 1..Len(b) :
    /\ \A j \in 1..(i - 1) : j <= Len(a) /\ a[j] = b[j]
    /\ i = Len(a) + 1 \/ (i <= Len(a) /\ a[i] < b[i])

SortKey(name, dir) == IF dir THEN Append(name, Slash) ELSE name

CmpPathBytesNoSlash(a, aDir, b, bDir) == BytesLess(a, b)

CmpPathBytes(a, aDir, b, bDir) == BytesLess(SortKey(a, aDir), SortKey(b, bDir))

\* TreeEntry::path and key
PathBytes(path) ==
  FoldLeft(LAMBDA k, n : IF k = <<>> THEN n ELSE k \o <<Slash>> \o n, <<>>, path)

EntryKey(e) == SortKey(PathBytes(e.path), e.dir)

\* read_clump: the names of one directory, as readdir and d_type give them.
ReadClump(tree, path) ==
  {[name |-> Last(e.path), dir |-> e.dir] : e \in
     {x \in tree : /\ Len(x.path) = Len(path) + 1
                   /\ Front(x.path) = path
                   /\ path = <<>> => IsPrefix(Prefix, Last(x.path))}}

\* read_all_sorted: a name whose type stayed unknown (typeless) sorts as a file;
\* start_after is a literal key.
ReadAllSorted(tree, path, after, typeless) ==
  LET types == {[name |-> n.name, dir |-> n.dir /\ n.name \notin typeless] :
                  n \in ReadClump(tree, path)}
      rest  == {n \in types : after # None => BytesLess(after, SortKey(n.name, n.dir))}
  IN  SetToSortSeq(rest, LAMBDA a, b : CmpPathBytes(a.name, a.dir, b.name, b.dir))

-----------------------------------------------------------------------------
\* TreeCursor: to_bytes and from_bytes carry the key and the skip bit, behind a
\* header that is checked.
ToBytes(c) == [magic |-> "TnTc", version |-> 1, flags |-> IF c.skip THEN 1 ELSE 0,
               len |-> Len(c.key), key |-> c.key]

FromBytes(b) ==
  IF b.magic # "TnTc" \/ b.version # 1 \/ b.flags \notin 0..1 \/ b.len # Len(b.key)
  THEN None
  ELSE [key |-> b.key, skip |-> b.flags = 1]

\* TreeCursor::components
Components(key) ==
  LET at == {i \in 1..Len(key) : key[i] = Slash} \cup {0, Len(key) + 1}
      nextAt(i) == CHOOSE j \in at : j > i /\ \A k \in at : k > i => j <= k
      starts == SetToSortSeq({i \in at : i < Len(key) /\ nextAt(i) > i + 1}, <)
  IN  [n \in 1..Len(starts) |-> SubSeq(key, starts[n] + 1, nextAt(starts[n]) - 1)]

EndsInSlash(key) == key # <<>> /\ Last(key) = Slash

Frame(path, cut) == [path |-> path, cut |-> cut, sorted |-> None, buf |-> <<>>]

\* How deep a resume descends, and what each level of it skips past.
DescendTo(c, depth) ==
  LET comps == Components(c.key)
      want  == IF EndsInSlash(c.key) /\ ~c.skip THEN Len(comps)
               ELSE IF comps = <<>> THEN 0 ELSE Len(comps) - 1
  IN  IF want < depth - 1 THEN want ELSE depth - 1

CutForBare(c, depth, level) ==
  LET comps == Components(c.key)
  IN  IF level < DescendTo(c, depth) THEN Append(comps[level + 1], Slash)
      ELSE IF level >= Len(comps) THEN None ELSE comps[level + 1]

CutFor(c, depth, level) ==
  LET comps == Components(c.key)
      into  == EndsInSlash(c.key) /\ ~c.skip
  IN  IF level < DescendTo(c, depth) THEN Append(comps[level + 1], Slash)
      ELSE IF level >= Len(comps) THEN None
      ELSE IF into \/ c.skip \/ level + 1 < Len(comps)
           THEN Append(comps[level + 1], Slash)
           ELSE comps[level + 1]

\* What query_directory's open of a level, for reading as the caller, can come
\* to.
Isdir(tree, path) == [path |-> path, dir |-> TRUE] \in tree
Opens(tree, path) == IF Isdir(tree, path) THEN {"ok", "denied", "failed"} ELSE {"gone"}
SubtreeSkip(how) == how \in {"denied", "gone"}

-----------------------------------------------------------------------------
TreeInit ==
  tw = [tree |-> Tree0, changes |-> 0, touched |-> {},
        live |-> FALSE, depth |-> 1, stack |-> <<>>, pending |-> None,
        last |-> <<>>, skip |-> FALSE, inCall |-> FALSE,
        saved |-> ToBytes([key |-> <<>>, skip |-> FALSE]),
        out |-> <<>>, excused |-> {}, pruned |-> {}, ended |-> FALSE]

Excuse(w, paths) == [w EXCEPT !.excused = @ \cup paths]

\* query_tree: the stack is rebuilt down to where the cursor stands; a level
\* that cannot be re-entered ends the descent, another failure the resume.
QueryTree ==
  /\ ~tw.live /\ ~tw.ended
  /\ \E depth \in Depths :
       LET c     == FromBytes(tw.saved)
           comps == Components(c.key)
           deep  == DescendTo(c, depth)
           frame(l) == Frame(SubSeq(comps, 1, l), CutFor(c, depth, l))
           upTo(l) == [tw EXCEPT !.live = TRUE, !.depth = depth,
                         !.stack = [i \in 1..(l + 1) |-> frame(i - 1)],
                         !.pending = None, !.last = c.key, !.skip = c.skip]
           limited == IF deep < Len(comps) /\ deep = depth - 1
                      THEN {SubSeq(comps, 1, deep + 1)} ELSE {}
       IN  \/ /\ \A l \in 1..deep : Isdir(tw.tree, SubSeq(comps, 1, l))
              /\ tw' = Excuse(upTo(deep), limited)
           \/ \E l \in 1..deep : \E how \in Opens(tw.tree, SubSeq(comps, 1, l)) :
                /\ \A m \in 1..(l - 1) : Isdir(tw.tree, SubSeq(comps, 1, m))
                /\ \/ /\ SubtreeSkip(how)
                      /\ tw' = Excuse(upTo(l - 1), {SubSeq(comps, 1, l)})
                   \/ /\ how = "failed"
                      /\ UNCHANGED tw

\* The caller ends the page and keeps the cursor.
DropWalkAt ==
  /\ tw.live /\ ~tw.inCall
  /\ tw' = [tw EXCEPT !.live = FALSE, !.stack = <<>>, !.pending = None,
              !.saved = ToBytes([key |-> tw.last, skip |-> tw.skip])]

\* skip_descent
SkipDescentForgets ==
  /\ tw.live /\ ~tw.inCall /\ tw.pending # None
  /\ tw' = Excuse([tw EXCEPT !.pending = None, !.pruned = @ \cup {tw.last}],
                  {tw.pending})

SkipDescent ==
  /\ tw.live /\ ~tw.inCall /\ tw.pending # None
  /\ tw' = Excuse([tw EXCEPT !.pending = None, !.skip = TRUE,
                             !.pruned = @ \cup {tw.last}], {tw.pending})

NextCall ==
  /\ tw.live /\ ~tw.inCall
  /\ tw' = [tw EXCEPT !.inCall = TRUE]

\* descend, at the head of a turn of next's loop.
Descend ==
  /\ tw.inCall /\ tw.pending # None
  /\ \E how \in Opens(tw.tree, tw.pending) :
       tw' = IF how = "ok"
             THEN [tw EXCEPT !.pending = None,
                             !.stack = Append(@, Frame(tw.pending, None))]
             ELSE Excuse([tw EXCEPT !.pending = None,
                                    !.inCall = SubtreeSkip(how)],
                         {tw.pending})

Top == Last(tw.stack)
WithTop(w, f) == [w EXCEPT !.stack = Append(Front(@), f)]
Popped(w) == [w EXCEPT !.stack = Front(@)]
Turn == tw.inCall /\ tw.pending = None

EndOfWalk ==
  /\ Turn /\ tw.stack = <<>>
  /\ tw' = [tw EXCEPT !.inCall = FALSE, !.live = FALSE, !.ended = TRUE]

\* The directory is read and sorted on the first batch.  A type that could not
\* be had is a refusal's (the entry counts as a file) or fails the listing.
ReadDirectory ==
  /\ Turn /\ tw.stack # <<>> /\ Top.sorted = None
  /\ \/ \E typeless \in SUBSET {n.name : n \in {m \in ReadClump(tw.tree, Top.path) : m.dir}} :
          tw' = Excuse(WithTop(tw, [Top EXCEPT !.sorted =
                                 ReadAllSorted(tw.tree, Top.path, Top.cut, typeless)]),
                       {Append(Top.path, n) : n \in typeless})
     \/ tw' = [Excuse(Popped(tw), {Top.path}) EXCEPT !.inCall = FALSE]

\* A batch: entries that may not be seen are left out, a failure that hides
\* one is the listing's.
NextBatchOf ==
  /\ Turn /\ tw.stack # <<>> /\ Top.sorted # None /\ Top.sorted # <<>>
  /\ Top.buf = <<>>
  /\ LET n == IF Clump < Len(Top.sorted) THEN Clump ELSE Len(Top.sorted)
         batch == SubSeq(Top.sorted, 1, n)
     IN  \/ \E unseen \in SUBSET (1..n) :
              tw' = Excuse(WithTop(tw, [Top EXCEPT
                                !.sorted = SubSeq(@, n + 1, Len(@)),
                                !.buf = [i \in 1..Cardinality((1..n) \ unseen) |->
                                  batch[SetToSortSeq((1..n) \ unseen, <)[i]]]]),
                           {Append(Top.path, batch[i].name) : i \in unseen})
         \/ tw' = [Excuse(Popped(tw), {Append(Top.path, Top.sorted[i].name) :
                                        i \in DOMAIN Top.sorted})
                     EXCEPT !.inCall = FALSE]

EndOfDirectory ==
  /\ Turn /\ tw.stack # <<>> /\ Top.sorted = <<>> /\ Top.buf = <<>>
  /\ tw' = Popped(tw)

EmitEntry ==
  /\ Turn /\ tw.stack # <<>> /\ Top.buf # <<>>
  /\ LET n    == Head(Top.buf)
         path == Append(Top.path, n.name)
         key  == SortKey(PathBytes(path), n.dir)
         into == n.dir /\ Len(tw.stack) < tw.depth
         w    == [WithTop(tw, [Top EXCEPT !.buf = Tail(@)]) EXCEPT
                    !.last = key, !.skip = FALSE, !.inCall = FALSE,
                    !.pending = IF into THEN path ELSE None,
                    !.out = Append(@, key)]
     IN  tw' = IF n.dir /\ ~into THEN Excuse(w, {path}) ELSE w

\* Another process creates or removes entries (a removed name stays free).
TreeChanges ==
  /\ tw.changes < MaxChanges
  /\ \/ \E e \in Late \ tw.touched :
          /\ Len(e.path) > 1 => Isdir(tw.tree, Front(e.path))
          /\ tw' = [tw EXCEPT !.tree = @ \cup {e}, !.touched = @ \cup {e},
                              !.changes = @ + 1]
     \/ \E e \in tw.tree :
          LET under == {x \in tw.tree : IsPrefix(e.path, x.path)}
          IN  tw' = [tw EXCEPT !.tree = @ \ under, !.touched = @ \cup under,
                               !.changes = @ + 1]

TreeNext ==
  \/ QueryTree \/ DropWalkAt \/ SkipDescent \/ NextCall \/ Descend
  \/ EndOfWalk \/ ReadDirectory \/ NextBatchOf \/ EndOfDirectory
  \/ EmitEntry \/ TreeChanges

-----------------------------------------------------------------------------
\* What the walk owes: an entry there from start to end that no caller skipped,
\* no depth limit, refusal or reported failure hides.
Owed ==
  {e \in Tree0 \ tw.touched :
     /\ IsPrefix(Prefix, e.path[1])
     /\ \A i \in 0..Len(e.path) : SubSeq(e.path, 1, i) \notin tw.excused
        \/ (i = Len(e.path) /\ EntryKey(e) \in ToSet(tw.out))}

\* The pages of a walk, one after another, list entries in the order of their
\* path strings and none twice, and nothing of a subtree the caller pruned,
\* however the pages are cut and the tree changes.
PathOrder ==
  /\ \A i \in 1..(Len(tw.out) - 1) : BytesLess(tw.out[i], tw.out[i + 1])
  /\ \A k \in ToSet(tw.out), d \in tw.pruned : IsPrefix(d, k) => k = d

\* No page boundary loses an entry: what lies at or before the cursor, and
\* everything once the walk has ended, was listed or is excused.
NothingMissed ==
  \A e \in Owed :
    tw.ended \/ ~BytesLess(tw.last, EntryKey(e)) => EntryKey(e) \in ToSet(tw.out)
=============================================================================
