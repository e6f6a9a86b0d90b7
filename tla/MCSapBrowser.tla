---------------------------- MODULE MCSapBrowser ----------------------------
(* TLC instance of SapBrowser.  The code's ten seconds and ten periods are *)
(* scaled down to three and four; the gaps vary by a factor of two, as an  *)
(* interval drawn at random does, and the node's own interval is as short  *)
(* as the shortest gap.  The clock runs long enough for a timeout after    *)
(* several announcements.                                                  *)
EXTENDS SapBrowser
=============================================================================
