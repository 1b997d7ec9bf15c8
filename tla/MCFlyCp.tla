------------------------------ MODULE MCFlyCp ------------------------------
(* fly cp of a small file, and the values and texts that Wire is asked of. *)
EXTENDS FlyCpWire
Seqs == INSTANCE SequencesExt

CpOps    == {"ping", "read", "write", "data", "end"}
CpFaults == {"hangup", "open", "io", "timeout", "net"}

\* every kind of value, with the bytes that could be mistaken for another
Leaves == {Null, Bool(TRUE), Bool(FALSE), String(<<>>), String(<<"a", " ", "*">>),
           Integer(-1), Integer(120), Error(<<"E">>, <<"a", " ", "a">>),
           Blob(<<>>), Blob(<<Nl, "*">>), Blob(<<"a", Nl, Nl>>)}

Arrays == {Array(<<>>)} \cup {Array(<<v, w>>) : v, w \in Leaves}

Tables == {NoRows} \cup {Add(NoRows, <<v>>) : v \in Arrays}
          \cup {Add(Add(NoRows, <<v, Null, w>>), <<w, v, v>>) : v, w \in Leaves}

CpSamples == Leaves \cup Arrays \cup Tables \cup {Array(<<v>>) : v \in Tables}
             \cup {Tagged(v, <<"1", "2">>) : v \in Leaves \cup Arrays}

Alphabet == {"_", "#", "t", "+", "-", "@", "=", "*", "$", ":", " ", ",", "1",
             "a", Nl}

CpBytes    == Meanings \cup {"a", "l", "s", "r", "w", "F", "E", "P", "e"}
CpArriving == Seqs!BoundedSeq(Alphabet, 4)
=============================================================================
