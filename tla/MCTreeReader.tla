---------------------------- MODULE MCTreeReader ----------------------------
EXTENDS TreeReader

(* "l" is a legal name.  An object id may hold any byte.                   *)
Names == {<<"l">>, <<"x", "y">>}

LegalOnes == {<<"l">>}

SomeBytes == Modes \cup {Space, NUL, "l", "x", "y"}

(* A name that does not fit into the buffer.                               *)
Long == [i \in 1..BufferSize |-> "x"]

Items ==
  {[mode |-> "file", name |-> n, oid |-> <<"sp", "nul">>] : n \in Names}
  \cup {[mode |-> "dir", name |-> <<"l">>, oid |-> <<"l", "l">>],
        [mode |-> "link", name |-> <<"x", "y">>, oid |-> <<"nul", "dir">>]}

Lists ==
  {<<>>, <<[mode |-> "file", name |-> Long, oid |-> <<"l", "l">>]>>}
  \cup {<<a>> : a \in Items} \cup {<<a, b>> : a, b \in Items}

(* The tree of some entries, of which size bytes are stored.               *)
BytesOf(list) == FlattenSeq([i \in DOMAIN list |-> Encoding(list[i])])

StoredTree(list, size) ==
  [entries |-> list,
   starts |-> [i \in 1..(Len(list) + 1) |-> Len(BytesOf(SubSeq(list, 1, i - 1)))],
   bytes |-> BytesOf(list),
   size |-> size]

(* Every cut of every list, the one after the first entry included.        *)
Cuts == UNION {{l} \X (0..Len(BytesOf(l))) : l \in Lists}

SomeTrees == {StoredTree(c[1], c[2]) : c \in Cuts}
=============================================================================
