------------------------------- MODULE Layout -------------------------------
(***************************************************************************)
(* The arithmetic of msys_sdk/ui_layout.py.  A maximum may be None.        *)
(***************************************************************************)
EXTENDS Integers

CONSTANT NoMaximum

ASSUME MaximumAssumption == NoMaximum \notin Int

Larger(a, b) == IF a >= b THEN a ELSE b
Smaller(a, b) == IF a <= b THEN a ELSE b

\* content_width()
ContentWidth(width, padding, minimum, maximum) ==
    LET lower == Larger(1, minimum)
        result == Larger(lower, Larger(0, width) - Larger(0, padding))
    IN  IF maximum = NoMaximum THEN result ELSE Smaller(result, Larger(lower, maximum))

\* responsive_columns()
Columns(width, item, gap, maximum) ==
    LET spacing == Larger(0, gap)
        columns == Larger(1, (Larger(0, width) + spacing) \div (Larger(1, item) + spacing))
    IN  IF maximum = NoMaximum THEN columns ELSE Smaller(columns, Larger(1, maximum))
=============================================================================
