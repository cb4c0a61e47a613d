------------------------------ MODULE BlockStore ------------------------------
(***************************************************************************)
(* What the FAT32 crate has of its disk behind caches: blocks in use hold  *)
(* what was last written to them, and reach the disk later, in any order.  *)
(***************************************************************************)
CONSTANTS
  Block, Val, None,
  Fitting     \* the sets of blocks that hold zeros when they are allocated

VARIABLES
  content,    \* what a block holds; None while nobody uses it
  disk

vars == <<content, disk>>

StoreInit == content \in [Block -> Val \union {None}] /\ disk \in [Block -> Val]

\* Steps of the users.
Put(b, v) == content[b] # None /\ content' = [content EXCEPT ![b] = v]
Allocate(S) ==
  /\ \A b \in S : content[b] = None
  /\ S \in Fitting => \A b \in S : disk'[b] = 0
  /\ content' = [b \in Block |-> IF b \in S THEN disk'[b] ELSE content[b]]
Free(b) == content[b] # None /\ content' = [content EXCEPT ![b] = None]

\* The disk takes over the contents of some blocks, as they are before the
\* step; blocks that nobody uses may change to anything.
Save ==
  \A b \in Block : content[b] # None => disk'[b] \in {disk[b], content[b]}

StoreNext ==
  /\ Save
  /\ \/ \E b \in Block, v \in Val : Put(b, v)
     \/ \E S \in SUBSET Block : Allocate(S)
     \/ \E b \in Block : Free(b)
     \/ content' = content

StoreSpec == StoreInit /\ [][StoreNext]_vars
=============================================================================
