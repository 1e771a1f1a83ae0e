----------------------------- MODULE MetadataTree -----------------------------
(***************************************************************************)
(* The copy-on-write B+tree of crates/storage/fs/src/btree.rs, and the     *)
(* device it writes through (volume.rs), as operators on a working record  *)
(*                                                                         *)
(*   m = [disk, may, cuts, ok, left, root, used, prot, gen, new]           *)
(*                                                                         *)
(* disk is what a read of each block returns now and may the values the    *)
(* block can hold after power is cut: one once it was flushed, otherwise   *)
(* every value written since and a torn one; cuts collects may after each  *)
(* write, for a cut in the middle of the operation.  left counts the       *)
(* device writes before one is refused; ok is FALSE once an operation      *)
(* returned an error.  root, used, prot and gen are TreeTransaction's fields, and new  *)
(* is the block the last write_new returned.  The node cache holds what    *)
(* its blocks hold and is left out.                                        *)
(***************************************************************************)
EXTENDS Integers, Sequences, FiniteSets, FiniteSetsExt, SequencesExt

CONSTANTS
    Capacity,   \* keys a node holds (CAPACITY)
    TreeBlocks  \* blocks of the arena (Super::tree_blocks)

SUPERS == 2
TreeAt == SUPERS
Arena == TreeAt .. TreeAt + TreeBlocks - 1
MaxHeight == 5  \* MAX_HEIGHT: a longer path is a cycle

\* A block no checksum accepts: half written, or never written at all.
Torn == [torn |-> TRUE]

IsNode(v) == "level" \in DOMAIN v

\* A node's links are its children above the leaves and its values in them;
\* both are tuples, a child a tuple of one block.
NodeOf(level, gen, keys, links) ==
    [level |-> level, gen |-> gen, keys |-> keys, links |-> links]
Child(b) == <<b>>
Kid(node, i) == node.links[i][1]

-------------------------------------------------------------------------------
(* The device. *)

\* A write is seen by every later read and survives a cut only perhaps.
Cuttable(m) == [m EXCEPT !.cuts = @ \cup {m.may}]
Put(m, at, v) ==
    IF ~m.ok \/ m.left = 0 THEN [m EXCEPT !.ok = FALSE]
    ELSE Cuttable([m EXCEPT !.left = @ - 1, !.disk[at] = v, !.may[at] = @ \cup {v, Torn}])

Fail(m) == [m EXCEPT !.ok = FALSE]

-------------------------------------------------------------------------------
(* Lookups. *)

Lower(node, key) == Cardinality({i \in DOMAIN node.keys : node.keys[i] < key})
Upper(node, key) == Cardinality({i \in DOMAIN node.keys : node.keys[i] <= key})

\* What next returns: nothing, an entry, or FsError::Corrupt.
Nothing == <<>>
Entry(key, value) == <<key, value>>
Corrupt == <<Torn>>

RECURSIVE Leftmost(_, _, _)
Leftmost(disk, at, height) ==
    IF at \notin Arena \/ height = 0 \/ ~IsNode(disk[at]) THEN Corrupt
    ELSE LET node == disk[at] IN
         IF node.level = 0 THEN Entry(node.keys[1], node.links[1])
         ELSE Leftmost(disk, Kid(node, 1), height - 1)

\* The successor of key below block at: down the link key belongs to, and when
\* that subtree holds nothing past key, the leftmost entry of the next one.
RECURSIVE NextBelow(_, _, _, _, _)
NextBelow(disk, at, key, inclusive, height) ==
    IF at \notin Arena \/ height = 0 \/ ~IsNode(disk[at]) THEN Corrupt
    ELSE LET node == disk[at]
             index == IF inclusive THEN Lower(node, key) ELSE Upper(node, key)
             child == Upper(node, key)
             Or(below) == IF below = Nothing /\ child < Len(node.keys)
                          THEN Leftmost(disk, Kid(node, child + 2), height - 1)
                          ELSE below
         IN IF node.level = 0
            THEN IF index < Len(node.keys)
                 THEN Entry(node.keys[index + 1], node.links[index + 1])
                 ELSE Nothing
            ELSE Or(NextBelow(disk, Kid(node, child + 1), key, inclusive, height - 1))

Next_(disk, root, key, inclusive) ==
    IF root = 0 THEN Nothing ELSE NextBelow(disk, root, key, inclusive, MaxHeight)

Get(disk, root, key) ==
    LET found == Next_(disk, root, key, TRUE)
    IN IF Len(found) = 2 /\ found[1] # key THEN Nothing ELSE found

\* Every block of the tree below at, in walk order; a block that does not parse,
\* is of another level or is newer than the checkpoint is listed as 0.
RECURSIVE Walk(_, _, _, _)
Walk(disk, at, level, gen) ==
    IF at \notin Arena \/ ~IsNode(disk[at]) THEN <<0>>
    ELSE LET node == disk[at] IN
         IF node.level # level \/ node.gen > gen THEN <<0>>
         ELSE IF level = 0 THEN <<at>>
         ELSE <<at>> \o FlattenSeq([i \in DOMAIN node.links |->
                                        Walk(disk, Kid(node, i), level - 1, gen)])

\* MetadataTree::mark: every block a root reaches, whatever its level; a block
\* that does not parse is met and makes mark fail.
Parses(disk, at) == at \in Arena /\ IsNode(disk[at])
Linked(disk, blocks) ==
    UNION {{link[1] : link \in ToSet(disk[b].links)} :
              b \in {b \in blocks : Parses(disk, b) /\ disk[b].level > 0}}
RECURSIVE Marked(_, _)
Marked(disk, bits) ==
    LET pending == Linked(disk, bits) \ bits
    IN IF pending = {} THEN bits ELSE Marked(disk, bits \cup pending)
Reached(disk, root) == Marked(disk, {root} \ {0})

\* btree::verify.
TreeVerifies(disk, root, gen) ==
    \/ root = 0
    \/ /\ root \in Arena /\ IsNode(disk[root]) /\ disk[root].gen = gen
       /\ LET blocks == Walk(disk, root, disk[root].level, gen)
          IN 0 \notin ToSet(blocks) /\ IsInjective(blocks)

-------------------------------------------------------------------------------
(* Insertion: every node on the path is written anew, lowest first. *)

\* write_new: the lowest clear block of the arena, taken before it is written.
WriteNew(m, node) ==
    LET clear == Arena \ m.used IN
    IF ~m.ok \/ clear = {} THEN Fail(m)
    ELSE LET at == Min(clear)
         IN Put([m EXCEPT !.used = @ \cup {at}, !.new = at], at, node)

\* A mutation frees nothing an older checkpoint reaches.
Release(m, at) ==
    IF m.ok /\ at \notin m.prot THEN [m EXCEPT !.used = @ \ {at}] ELSE m

\* The branch that replaces a rewritten child: its blocks, and the keys that
\* part them.  kids is <<at>> for Branch::One and <<left, right>> for a split.
Branch(m, kids, seps) == [m |-> m, kids |-> kids, seps |-> seps]
One(m) == Branch(m, <<m.new>>, <<>>)
Two(left, sep, right) == Branch(right, <<left.new, right.new>>, <<sep>>)
Children(branch) == [i \in DOMAIN branch.kids |-> Child(branch.kids[i])]

\* The upper half goes out after the lower one was written.
WriteUpper(left, sep, node) == Two(left, sep, WriteNew(left, node))

\* Writes keys and links as one node, or as two when they overflow it: a leaf
\* keeps its middle key, an inner node lends it to its parent.
Spread(m, level, keys, links) ==
    LET total == Len(keys)
        middle == total \div 2
        cut == IF level = 0 THEN middle ELSE middle + 1
        Part(ks, ls) == NodeOf(level, m.gen, ks, ls)
    IN IF total <= Capacity THEN One(WriteNew(m, Part(keys, links)))
       ELSE WriteUpper(WriteNew(m, Part(SubSeq(keys, 1, middle), SubSeq(links, 1, cut))),
                       keys[middle + 1],
                       Part(SubSeq(keys, cut + 1, total), SubSeq(links, cut + 1, Len(links))))

InsertLeaf(m, leaf, key, value) ==
    LET index == Lower(leaf, key) IN
    IF index < Len(leaf.keys) /\ leaf.keys[index + 1] = key
    THEN Spread(m, 0, leaf.keys, [leaf.links EXCEPT ![index + 1] = value])
    ELSE Spread(m, 0, InsertAt(leaf.keys, index + 1, key),
                      InsertAt(leaf.links, index + 1, value))

RewriteParent(branch, parent, child) ==
    Spread(branch.m, parent.level,
           SubSeq(parent.keys, 1, child) \o branch.seps
               \o SubSeq(parent.keys, child + 1, Len(parent.keys)),
           SubSeq(parent.links, 1, child) \o Children(branch)
               \o SubSeq(parent.links, child + 2, Len(parent.links)))

\* Rewrites the subtree at block at, releasing each old node once its
\* replacement is written.
RECURSIVE InsertBelow(_, _, _, _, _)
InsertBelow(m, at, key, value, height) ==
    IF ~m.ok \/ at \notin Arena \/ height = 0 \/ ~IsNode(m.disk[at])
    THEN Branch(Fail(m), <<0>>, <<>>)
    ELSE LET node == m.disk[at]
             child == Upper(node, key)
             branch == IF node.level = 0 THEN InsertLeaf(m, node, key, value)
                       ELSE RewriteParent(InsertBelow(m, Kid(node, child + 1), key, value, height - 1),
                                          node, child)
         IN [branch EXCEPT !.m = Release(@, at)]

\* A root that split gets a parent of its two halves.
Grow(branch) ==
    IF Len(branch.kids) = 1 \/ ~branch.m.ok
    THEN [branch.m EXCEPT !.new = branch.kids[1]]
    ELSE WriteNew(branch.m, NodeOf(branch.m.disk[branch.kids[1]].level + 1, branch.m.gen,
                                   branch.seps, Children(branch)))

Rooted(m) == IF m.ok THEN [m EXCEPT !.root = m.new] ELSE m

\* MetadataTree::insert: the root moves last, and only when all else succeeded.
Insert(m, key, value) ==
    IF ~m.ok THEN m
    ELSE IF m.root = 0 THEN Rooted(WriteNew(m, NodeOf(0, m.gen, <<key>>, <<value>>)))
    ELSE Rooted(Grow(InsertBelow(m, m.root, key, value, MaxHeight)))
===============================================================================
