--------------------------- MODULE MCEsp32Uplink ---------------------------
(* Two taps for TLC, in either order. *)
EXTENDS Esp32Uplink, TLC

CONSTANTS d1, d2

=============================================================================
