------------------------------ MODULE MCCIPosting ------------------------------
(* One pull request whose branch moves between two commits.                    *)
EXTENDS CIPosting

================================================================================
