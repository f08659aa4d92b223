------------------------------- MODULE MCNames -------------------------------
(* Texts over one character of each class the rules tell apart. *)
EXTENDS Names

MCChars == {"a", "/", ".", "@", "{", "lock", " ", "~"}
MCBlank == {" "}
MCForbidden == {"~"}

\* Eight bytes of two digits in base three, and lengths of two digits.
MCByte == [c \in MCChars |->
    CASE c = "a" -> 0 [] c = "/" -> 1 [] c = "." -> 2 [] c = "@" -> 3
      [] c = "{" -> 4 [] c = "lock" -> 5 [] c = " " -> 7 [] c = "~" -> 8]
=============================================================================
