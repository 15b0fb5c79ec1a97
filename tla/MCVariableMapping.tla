------------------------- MODULE MCVariableMapping -------------------------
(* Values of the constants: six process variables and mapping files.       *)
EXTENDS VariableMapping

MCKind == [p \in {<<"a", "x">>, <<"a", "b", "m">>, <<"a", "b", "xValue">>, <<"a">>,
                  <<"bc", "a", "x">>, <<"e">>} |->
             CASE p = <<"a", "b", "m">> -> "method"
               [] p = <<"e">> -> "event"
               [] OTHER -> "value"]
MCBegins == {<<"b", "bc">>, <<"x", "xValue">>}
MCValues == {<<"x", "xValue">>}

Entry(source, copy, destination, name, history) ==
  [source |-> source, copy |-> copy, destination |-> destination,
   name |-> name, history |-> history]
FolderEntry(source, copy, destination, name, history) ==
  Entry(source, copy, destination, name, history) @@ [described |-> name = "b"]

Excludes == {{}} \cup {{[kind |-> k, path |-> p]} :
              k \in {"directory", "greedy", "direct"},
              p \in {<<"a">>, <<"b">>, <<"a", "b">>, <<"a", "x">>, <<"bc">>}}
            \cup {{[kind |-> "directory", path |-> <<>>]}}

(* Exclusion against what the entries need. *)
ExcludeFiles ==
  [exclude : Excludes,
   folders : {<<>>} \cup {<<FolderEntry(s, "", <<>>, "", TRUE)>> :
                s \in {<<"a">>, <<"a", "b">>}},
   variables : {<<>>} \cup {<<Entry(s, "", <<"d">>, "", FALSE)>> :
                s \in {<<"a", "x">>, <<"a", "b", "m">>, <<"bc", "a", "x">>,
                       <<"e">>}},
   additional : {<<>>}]

(* Pairs of folder entries: links and copies of what was linked, copied or *)
(* created before, into itself and onto what is there.                     *)
FolderFiles ==
  [exclude : {{}, {[kind |-> "direct", path |-> <<"a", "b", "xValue">>]}},
   folders : {<<first, second>> :
     first \in {FolderEntry(s, c, d, n, n = "f") :
       s \in {<<>>, <<"a">>, <<"a", "b">>}, c \in Copies,
       d \in {<<>>, <<"a">>}, n \in {"f", "b"}},
     second \in {FolderEntry(s, c, d, n, h) :
       s \in {<<>>, <<"a">>, <<"f">>, <<"g">>}, c \in {"", "TRUE"},
       d \in {<<>>, <<"f">>}, n \in {"", "b", "g"}, h \in BOOLEAN}},
   variables : {<<>>},
   additional : {<<[destination |-> <<"f">>, name |-> "v"],
                   [destination |-> <<"a", "b">>, name |-> "x"]>>}]

(* A third entry after two subfolders got the same name.                   *)
TwinFiles ==
  [exclude : {{}, {[kind |-> "direct", path |-> <<"a", "b", "m">>]}},
   folders : {<<FolderEntry(<<"a">>, c, <<>>, "f", FALSE),
                FolderEntry(<<"bc">>, d, <<"f">>, "b", FALSE),
                FolderEntry(<<"f">>, "TRUE", <<>>, "g", FALSE)>> :
                  c \in {"", "TRUE"}, d \in {"", "TRUE"}},
   variables : {<<>>}, additional : {<<>>}]

VariableFiles ==
  [exclude : {{[kind |-> "greedy", path |-> <<"a">>]}},
   folders : {<<FolderEntry(<<"a">>, "TRUE", <<>>, "f", FALSE)>>},
   variables : {<<first, second>> :
     first \in {Entry(s, c, d, n, h) :
       s \in {<<>>, <<"a", "x">>, <<"a", "b", "m">>}, c \in Copies,
       d \in {<<>>, <<"a">>, <<"f">>}, n \in {"", "x", "b"}, h \in BOOLEAN},
     second \in {Entry(s, c, d, n, h) :
       s \in {<<"a", "x">>, <<"f", "x">>, <<"e">>}, c \in {"", "TRUE"},
       d \in {<<"a">>, <<"f">>, <<"f", "b">>}, n \in {"", "x"}, h \in BOOLEAN}},
   additional : {<<[destination |-> <<"f">>, name |-> "x"],
                   [destination |-> <<"f">>, name |-> "x"],
                   [destination |-> <<>>, name |-> ""]>>}]

MCFiles == ExcludeFiles \cup FolderFiles \cup TwinFiles \cup VariableFiles
=============================================================================
