------------------------------ MODULE MCPlugin ------------------------------
(***************************************************************************)
(* The smaller parts of the plugin, for TLC. They share no state: "part"   *)
(* names the one that goes on, and the others stay where they begin, where *)
(* nothing is under way that fairness could ask of them.                   *)
(***************************************************************************)
EXTENDS ForgetConfirm, KernelClient, NativeLoader, InspectorPage, Capture

CONSTANTS s1, s2, s3, a1, a2

VARIABLE part

\* In the group s1 two accounts are controllers, in s2 one of them is.
GroupPermits == {<<s1, a1>>, <<s1, a2>>, <<s2, a1>>}

\* Three scopes are two pages of them.
SomeScopes == {[id |-> 1, time |-> 5], [id |-> 2, time |-> 7], [id |-> 3, time |-> 5]}

\* Five rows of one scope, four of them of the same time, and one of another.
SomeRows ==
  {[scope |-> 2, collection |-> "events", id |-> i, time |-> IF i = 4 THEN 2 ELSE 1] : i \in 1..5}
    \cup {[scope |-> 1, collection |-> "events", id |-> 6, time |-> 1],
          [scope |-> 2, collection |-> "recalls", id |-> 7, time |-> 1]}

Sent(scope, id, stamp, content) ==
  [scope |-> scope, id |-> id, stamp |-> stamp, sender |-> "someone", content |-> content]

\* One id in two scopes, an edited message, a command, a scope that may not
\* capture, and messages without id, time or text.
SomeMessages ==
  {Sent(s1, 7, None, "a"), Sent(s1, 7, None, "b"), Sent(s2, 7, None, "b"), Sent(s1, None, 1, "a"),
   Sent(s1, None, None, "a"), Sent(s1, 8, None, None), Sent(s1, 9, None, "a"), Sent(s3, 7, None, "a")}

SomeCommands == {Sent(s1, 9, None, "a")}

-----------------------------------------------------------------------------
PluginInit ==
  /\ part \in {"forget", "client", "loader", "page", "capture"}
  /\ ForgetInit /\ ClientInit /\ LoaderInit /\ PageInit /\ CaptureInit
  /\ part # "client" => ~closeRaises /\ ~inspects /\ inspecting = {}
  /\ part # "loader" => \A place \in Places : Found(place) = Missing /\ place \notin broken
  /\ part # "loader" => binary = Missing

PluginNext ==
  /\ UNCHANGED part
  /\ \/ part = "forget" /\ ForgetNext /\ UNCHANGED <<clientVars, loaderVars, page, captureVars>>
     \/ part = "client" /\ ClientNext /\ UNCHANGED <<forgetVars, loaderVars, page, captureVars>>
     \/ part = "loader" /\ LoaderNext /\ UNCHANGED <<forgetVars, clientVars, page, captureVars>>
     \/ part = "page" /\ PageNext /\ UNCHANGED <<forgetVars, clientVars, loaderVars, captureVars>>
     \/ part = "capture" /\ CaptureNext /\ UNCHANGED <<forgetVars, clientVars, loaderVars, page>>

PluginVars == <<part, forgetVars, clientVars, loaderVars, page, captureVars>>

PluginSpec == PluginInit /\ [][PluginNext]_PluginVars /\ ClientFairness /\ PageFairness

=============================================================================
