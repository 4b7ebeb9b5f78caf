----------------------------- MODULE ImageStore -----------------------------
(***************************************************************************)
(* What a .trn file promises, as a store of whole images: a load brings    *)
(* back the image that was stored, or fails; when it is unknown what is    *)
(* stored it brings back an acceptable image, or fails.                    *)
(***************************************************************************)
CONSTANTS Acceptable(_),   \* the images a loader has to accept
          Nothing,         \* nothing loadable is stored
          Unknown,         \* a damaged file, or one of an image that is not Faithful
          Error            \* a load that failed

VARIABLES stored, result

Init == result = Nothing

\* the content changes: another image, an interrupted write, a damaged file
Store == UNCHANGED result

Fetch ==
    /\ UNCHANGED stored
    /\ \/ stored = Nothing /\ result' = Error
       \/ stored = Unknown /\ (result' = Error \/ Acceptable(result'))
       \/ /\ stored \notin {Nothing, Unknown}
          /\ result' = IF Acceptable(stored) THEN stored ELSE Error

Next == Store \/ Fetch
Spec == Init /\ [][Next]_<< stored, result >>
=============================================================================
