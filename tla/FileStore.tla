------------------------------ MODULE FileStore ------------------------------
(***************************************************************************)
(* What a file system promises about the contents of files: each file has  *)
(* its own contents, a write changes the units it covers and fills a gap   *)
(* with zeros, and nothing else changes them except truncation.            *)
(***************************************************************************)
EXTENDS Integers, Sequences

CONSTANTS Val, Zero, Lens, Offset

VARIABLE content    \* of each directory entry ever made

StoreInit == content = <<>>

Make == content' = Append(content, <<>>)

Truncate(s) == content' = [content EXCEPT ![s] = <<>>]

Overwrite(s, off, n, v) ==
  LET old == content[s]
      size == IF off + n > Len(old) THEN off + n ELSE Len(old)
  IN content' = [content EXCEPT ![s] =
       [i \in 1..size |-> IF i \in (off + 1)..(off + n) THEN v
                          ELSE IF i <= Len(old) THEN old[i] ELSE Zero]]

FilesNext ==
  \/ Make
  \/ \E s \in 1..Len(content) :
       \/ Truncate(s)
       \/ \E n \in Lens, v \in Val, off \in Offset : Overwrite(s, off, n, v)

FilesSpec == StoreInit /\ [][FilesNext]_content
=============================================================================
