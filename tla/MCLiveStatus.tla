---------------------------- MODULE MCLiveStatus ----------------------------
(***************************************************************************)
(* An instance of LiveStatus for TLC: three events of which the second in  *)
(* time may come first, two cassettes of which an event reports none, one  *)
(* or both.                                                                *)
(***************************************************************************)
EXTENDS LiveStatus, TLC

CONSTANTS e1, e2, e3, status, inService, outOfService

AllEvents == {e1, e2, e3}
Times == (e1 :> 1 @@ e2 :> 2 @@ e3 :> 2)
Said == (e1 :> (status :> inService) @@ e2 :> (status :> NoValue)
         @@ e3 :> (status :> outOfService))
TwoCassettes == 1..2
Notes == (e1 :> <<3, NoValue>> @@ e2 :> <<NoValue, 0>> @@ e3 :> <<0, NoValue>>)
Denominations == (e1 :> <<5, NoValue>> @@ e2 :> <<NoValue, NoValue>>
                  @@ e3 :> <<NoValue, NoValue>>)
Defaults == <<10, 5>>
OneAttribute == {status}
=============================================================================
