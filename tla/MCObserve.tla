------------------------------ MODULE MCObserve ------------------------------
EXTENDS Observe

WideOrTall == {<<2, 1>>, <<1, 2>>}

OnAndOffTheGrid == {-1, 0, 1, 2}

Kind(call, error, edits, overran, drifts, sign) ==
  [call |-> call, error |-> error, edits |-> edits, overran |-> overran,
   drifts |-> drifts, sign |-> sign]

\* A query, a failure without a call, a slow edit that fails, a call of a tool
\* that does not exist, and mere text.
KindsOfSteps ==
  {Kind("grep", "no", {}, 0, FALSE, "none"),
   Kind(None, "fatal", {}, 0, TRUE, "model"),
   Kind("edit", "exit", {"f"}, 2, FALSE, "environment"),
   Kind("fly", "soft", {"f"}, 1, FALSE, "no tool"),
   Kind(None, "no", {}, 0, FALSE, "none")}
=============================================================================
