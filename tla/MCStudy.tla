------------------------------- MODULE MCStudy -------------------------------
EXTENDS Study

Entry(id, category, path, file) ==
  [id |-> id, category |-> category, path |-> path, file |-> file]

\* Sound catalogs, one with a missing file, one with another scenario's file,
\* one that lists a scenario twice and one with two names for a file.
Catalogs ==
  [entries : {<<Entry(1, "x", 1, <<1, "x">>)>>,
              <<Entry(1, "x", 1, <<1, "x">>), Entry(2, "y", 2, <<2, "y">>)>>,
              <<Entry(1, "x", 1, <<1, "x">>), Entry(2, "y", 2, None)>>,
              <<Entry(1, "y", 3, <<1, "y">>), Entry(2, "y", 1, <<1, "x">>)>>,
              <<Entry(1, "x", 1, <<1, "x">>), Entry(1, "x", 2, <<1, "x">>)>>,
              <<Entry(2, "x", 1, <<2, "x">>), Entry(3, "x", 1, <<2, "x">>)>>},
   categories : {<<"x">>, <<"x", "x">>, <<"x", "y">>}]

\* The defaults' weights, a lenient configuration and one without weights.
SomeConfigs ==
  {[dw |-> 3, sw |-> 2, threshold |-> 70, all |-> TRUE],
   [dw |-> 3, sw |-> 2, threshold |-> 40, all |-> FALSE],
   [dw |-> 0, sw |-> 0, threshold |-> 70, all |-> TRUE]}

\* Below, on and above the scale of 1 to 5, and no percentage either.
OnAndOffTheScale == {-1, 2, 5, 6, 101}

\* Two faults of each kind that shares something, and of different kinds; one on
\* a timer, so that it may come late, and one that may come again.
Item(kind, trigger) == [kind |-> kind, trigger |-> trigger]

SomeSchedules ==
  {<<Item("net", "time"), Item("net", "call")>>, <<Item("block", "time"), Item("block", "time")>>,
   <<Item("file", "time"), Item("cores", "call")>>, <<Item("process", "call"), Item("net", "time")>>}

\* Two models of one provider each.
SomeModels == [m \in {"m1", "m2"} |-> IF m = "m1" THEN "v1" ELSE "v2"]

\* A model of each provider; the last one does not think.
ThinkingModels ==
  {[provider |-> "anthropic", min |-> 1024, max |-> 64000, default |-> 16000, answer |-> 128000],
   [provider |-> "google", min |-> 0, max |-> 24576, default |-> 8192, answer |-> 65536],
   [provider |-> "openai", min |-> None, max |-> None, default |-> None, answer |-> 16384]}
=============================================================================
