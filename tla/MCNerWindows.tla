----------------------------- MODULE MCNerWindows -----------------------------
(* Instance of NerWindows for TLC: every text of up to MaxTokens tokens of one *)
(* character, each of them next to its predecessor or one blank behind it.     *)
EXTENDS NerWindows

CONSTANT MaxTokens   \* bound: the length of a text

\* The start of token k when blanks says which tokens follow a blank.
At(blanks, k) == k - 1 + Cardinality({b \in blanks : b <= k})

ShortTexts ==
    UNION {{[len |-> At(blanks, m) + 1,
             tokens |-> [k \in 1..m |-> <<At(blanks, k), At(blanks, k) + 1>>]] :
                blanks \in SUBSET (1..m)} : m \in 1..MaxTokens}
=============================================================================
