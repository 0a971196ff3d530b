------------------------------- MODULE DvDisplay -------------------------------
(* The window of playdv and its sound card: how a way to show pictures is    *)
(* chosen, and under Xv where in the window the picture goes when the window *)
(* or the format of the picture changes.                                     *)
EXTENDS Integers

(* dv_display_init: methods that are there, in the order they are tried.     *)
DisplayMethod(arg, there) ==
  CASE arg = 0 -> IF "Xv" \in there THEN "Xv" ELSE IF "SDL" \in there THEN "SDL"
                  ELSE IF "gtk" \in there THEN "gtk" ELSE "none"
    [] arg = 1 -> IF "gtk" \in there THEN "gtk" ELSE "none"
    [] arg = 2 -> IF "Xv" \in there THEN "Xv" ELSE "none"
    [] arg = 3 -> IF "SDL" \in there THEN "SDL" ELSE "none"

(* dv_display_popt_callback: what is refused.                                *)
DisplayAccepted(a) == /\ a.display \in 0 .. 3
                      /\ a.aspect \in {"asis", "normal", "wide"}
                      /\ a.scale = 0 \/ a.scale \in 10 .. 100

FormatUnknown == -1
FormatNormal == 0
FormatWide == 1
Percent(n, size) == IF size = 0 THEN n ELSE (n * size) \div 100
(* dv_display_Xv_init: the whole window, of the aspect that was asked for.   *)
XvInit(width, height, a) ==
  LET w == Percent(CASE a.aspect = "asis" -> width [] a.aspect = "normal" -> 768
                     [] a.aspect = "wide" -> 1024, a.scale)
      h == Percent(IF a.aspect = "asis" THEN height ELSE 576, a.scale)
  IN [lib |-> "Xv", flags |-> a.aspect, swidth |-> width, sheight |-> height,
      dwidth |-> w, dheight |-> h, lwidth |-> w, lheight |-> h, lxoff |-> 0, lyoff |-> 0,
      picFormat |-> IF a.aspect = "asis" THEN FormatNormal ELSE FormatUnknown]
OtherInit(lib, width, height) ==
  [lib |-> lib, flags |-> "asis", swidth |-> width, sheight |-> height,
   dwidth |-> width, dheight |-> height, lwidth |-> width, lheight |-> height,
   lxoff |-> 0, lyoff |-> 0, picFormat |-> FormatNormal]

(* dv_display_check_format: only when the format changes.                    *)
Boxed(d, x, y) == [d EXCEPT !.lxoff = IF x THEN d.dwidth \div 8 ELSE 0,
                            !.lyoff = IF y THEN d.dheight \div 8 ELSE 0,
                            !.lwidth = IF x THEN (d.dwidth * 3) \div 4 ELSE d.dwidth,
                            !.lheight = IF y THEN (d.dheight * 3) \div 4 ELSE d.dheight]
Fit(d, format) == IF format = FormatUnknown THEN d
                  ELSE Boxed(d, d.flags = "wide" /\ format = FormatNormal,
                                d.flags = "normal" /\ format = FormatWide)
CheckFormat(d, format) ==
  IF format = d.picFormat \/ d.flags = "asis" THEN d
  ELSE [Fit(d, format) EXCEPT !.picFormat = format]

\* A mutant: the format is not set to unknown before it is checked again.
ResizeOnly(d, w, h) == CheckFormat([d EXCEPT !.dwidth = w, !.dheight = h], d.picFormat)
(* dv_display_event: the window has a new size.                              *)
Resize(d, w, h) ==
  CheckFormat([d EXCEPT !.dwidth = w, !.dheight = h, !.picFormat = FormatUnknown], d.picFormat)

SetNorm(d, system) == [d EXCEPT !.sheight = IF system = "pal" THEN 576 ELSE 480]

(* dv_oss_init: a file takes everything, a device has to keep the number of  *)
(* channels and the rate of the first frame.                                 *)
OssInit(s, frame) == \/ s.to = "file"
                     \/ s.to = "device" /\ frame.channels \in s.channels /\ frame.rate \in s.rates
=============================================================================
