------------------------------ MODULE MCMonitors ------------------------------
(***************************************************************************)
(* An instance of WebServer for TLC.                                       *)
(***************************************************************************)
EXTENDS WebServer, TLC

CONSTANTS d1, d2, n1, q1, s1, s2, g1

\* Width and height; width without height, which is not sent, with the rate.
SomePayloads == {"width" :> "new" @@ "height" :> "new",
                 "width" :> "odd" @@ "rate" :> "new"}

\* The XML of the sub stream has no frame rate.
SomeTags == "main" :> Fields @@ "sub" :> Paired
=============================================================================
