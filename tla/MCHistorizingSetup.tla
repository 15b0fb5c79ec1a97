------------------------- MODULE MCHistorizingSetup --------------------------
(* HistorizingSetup for TLC: two variables and a third that is not mapped, *)
(* a folder in a folder, two names of setups; lists of up to two entries.  *)
EXTENDS HistorizingSetup

MCNodes == {"v1", "v2", "gone"}
MCFolders == {"outer", "inner"}
MCMapped == {"v1", "v2", "outer", "inner"}
MCContents == [f \in MCFolders |->
  IF f = "outer" THEN <<"inner", "v1">> ELSE <<"v1", "v2">>]

UpTo2(S) == {<<>>} \cup {<<a>> : a \in S} \cup {<<a, b>> : a, b \in S}

Influx(name) == [name |-> name, influx |-> TRUE, complete |-> TRUE]
Circular(name) == [name |-> name, influx |-> FALSE, complete |-> TRUE]
Broken(name) == [name |-> name, influx |-> TRUE, complete |-> FALSE]

\* none; one; two names; a name twice; an incomplete definition first
MCSetupLists ==
  { <<>>, <<Circular("s")>>, <<Influx("s"), Circular("t")>>,
    <<Circular("s"), Influx("s")>>, <<Broken("s"), Circular("s")>> }
MCVariableLists == UpTo2([id : {"v1", "v2"}, setup : {"s", "t"}])
                   \cup {<<[id |-> "gone", setup |-> "s"]>>}
MCFolderLists == UpTo2([id : MCFolders, setup : {"s", "t"}])
=============================================================================
