------------------------------- MODULE MCBoot -------------------------------
(* Start-ups with units of all five types that require one another.         *)
EXTENDS Boot

\* Two front units, a background unit, two normal units of one name and one
\* that requires that name, a daemon and two after units.  The background unit
\* requires an after unit, and "x" is the name of no unit.
MCUnit == 1..9
MCUtype == <<"front", "front", "background", "normal", "normal", "normal",
             "daemon", "after", "after">>
MCName == <<"f1", "f2", "b", "n1", "n1", "n2", "d", "a1", "a2">>
MCRequires == <<{}, {"f1"}, {"n1", "a1"}, {"f1"}, {"x"}, {"n1", "f2"}, {"a1"},
                {"n2"}, {"a1", "n1"}>>
=============================================================================
