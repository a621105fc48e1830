----------------------------- MODULE MCImuBackend -----------------------------
(* Four byte values, frames of six and five bytes; one payload holds the     *)
(* header of its protocol, and one makes a frame end with header0.          *)
EXTENDS ImuBackend, TLC

FrameSizes == ("XSENS" :> 6) @@ ("HIPNUC" :> 5)
Headers == ("XSENS" :> <<2, 3>>) @@ ("HIPNUC" :> <<1, 2>>)
Measurements == {<<1, 1>>, <<2, 3>>, <<1, 2>>}
WeightedSum(s) == (s[1] + s[2] + 3 * s[3] + s[4]) % 4
=============================================================================
