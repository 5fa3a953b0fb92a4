----------------------------- MODULE PrefixTree -----------------------------
(***************************************************************************)
(* internal/cache/prefix.go: the prefix tree that InsertPrefix builds and  *)
(* MatchPrefix walks.                                                      *)
(*                                                                         *)
(* A node is named by its path from the root, a block by the tokens it is  *)
(* the hash of (hashTokens, taken to have no collisions).  InsertPrefix is *)
(* a loop of two critical sections per block, Set under c.mu and           *)
(* insertIntoTree under tree.mu, so other goroutines come in between.      *)
(***************************************************************************)
EXTENDS Integers, Sequences, SequencesExt, FiniteSetsExt

CONSTANTS Tokens,
          Writers,       \* goroutines calling InsertPrefix
          BlockSize, MinPrefixLen, MaxPrefixLen,
          MaxLen,        \* bound: the length of a prompt
          NoBlock        \* the nil Block of an inner node

ASSUME PrefixTreeAssumption ==
  /\ BlockSize \in Nat \ {0}
  /\ MinPrefixLen \in Nat \ {0}
  /\ MaxPrefixLen \in Nat \ {0}
  /\ MaxLen \in Nat

VARIABLES nodes,   \* the tree: path -> the block linked there
          blocks,  \* keys of tree.blocks
          writer,  \* the InsertPrefix each goroutine is in
          inserted \* history: prefixes inserted, with no Clear during or after it

treeVars == <<nodes, blocks, writer, inserted>>

Prompts == UNION {[1..n -> Tokens] : n \in 1..MaxLen}
Prefix(s, n) == SubSeq(s, 1, n)

\* whole is history: no Clear since the call began.
IdleWriter == [pc |-> "idle", tokens |-> <<>>, start |-> 0, whole |-> FALSE]

TreeInit ==
  /\ nodes = <<>>
  /\ blocks = {}
  /\ writer = [w \in Writers |-> IdleWriter]
  /\ inserted = {}

-----------------------------------------------------------------------------
\* A prefix that is too short is refused, one that is too long is cut.
InsertPrefix(w, tokens) ==
  /\ writer[w].pc = "idle"
  /\ Len(tokens) >= MinPrefixLen
  /\ writer' = [writer EXCEPT ![w] =
       [pc |-> "set", tokens |-> Prefix(tokens, Min({Len(tokens), MaxPrefixLen})),
        start |-> 0, whole |-> TRUE]]
  /\ UNCHANGED <<nodes, blocks, inserted>>

BlockEnd(w) == Min({writer[w].start + BlockSize, Len(writer[w].tokens)})

\* The block is stored under the hash of all tokens up to its end ...
SetBlock(w) ==
  /\ writer[w].pc = "set"
  /\ blocks' = blocks \cup {Prefix(writer[w].tokens, BlockEnd(w))}
  /\ writer' = [writer EXCEPT ![w].pc = "link"]
  /\ UNCHANGED <<nodes, inserted>>

\* The block's own tokens.
BlockTokens(w) == SubSeq(writer[w].tokens, writer[w].start + 1, BlockEnd(w))

\* Mutant of PathsTo: the first token gets no node.
PathsToFromSecond(path) == {Prefix(path, n) : n \in 2..Len(path)}

\* The nodes on the way to a path.
PathsTo(path) == {Prefix(path, n) : n \in 1..Len(path)}

\* ... and linked, if it is still there, to the node that the block's own
\* tokens lead to from the root.
insertIntoTree(w) ==
  LET tokens == writer[w].tokens
      end    == BlockEnd(w)
      path   == BlockTokens(w)
      paths  == PathsTo(path)
      hash   == Prefix(tokens, end)
  IN  /\ writer[w].pc = "link"
      /\ nodes' = [p \in DOMAIN nodes \cup paths |->
                     IF p = path /\ hash \in blocks THEN hash
                     ELSE IF p \in DOMAIN nodes THEN nodes[p] ELSE NoBlock]
      /\ IF end = Len(tokens)
         THEN /\ writer' = [writer EXCEPT ![w] = IdleWriter]
              /\ inserted' = IF writer[w].whole THEN inserted \cup {tokens} ELSE inserted
         ELSE /\ writer' = [writer EXCEPT ![w].pc = "set", ![w].start = end]
              /\ UNCHANGED inserted
      /\ UNCHANGED blocks

\* removeBlock, called by Delete, by an eviction or by a Get.
removeFromTree(b) ==
  /\ blocks' = blocks \ {b}
  /\ UNCHANGED <<nodes, writer, inserted>>

\* Clear empties tree.blocks and the root.
ClearTree ==
  /\ blocks' = {}
  /\ nodes' = <<>>
  /\ inserted' = {}
  /\ writer' = [w \in Writers |-> [writer[w] EXCEPT !.whole = FALSE]]

-----------------------------------------------------------------------------
\* MatchPrefix: how far the walk gets.
MatchedLen(tokens) ==
  Max({n \in 0..Min({Len(tokens), MaxPrefixLen}) :
         \A i \in 1..n : Prefix(tokens, i) \in DOMAIN nodes})

-----------------------------------------------------------------------------
TreeNext ==
  \/ \E w \in Writers :
       (\E tokens \in Prompts : InsertPrefix(w, tokens)) \/ SetBlock(w) \/ insertIntoTree(w)
  \/ \E b \in blocks : removeFromTree(b)
  \/ ClearTree

TreeSpec == TreeInit /\ [][TreeNext]_treeVars

-----------------------------------------------------------------------------
\* A prompt that was inserted matches at least its first block, whatever other
\* insertions and evictions came in between (prefix.go, insertIntoTree and
\* MatchPrefix).
FirstBlockMatches ==
  \A tokens \in inserted : MatchedLen(tokens) >= Min({BlockSize, Len(tokens)})
=============================================================================
