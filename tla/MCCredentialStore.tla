------------------------- MODULE MCCredentialStore -------------------------
(* What is kept in two places: the credentials of a profile, in memory and  *)
(* in the vault; or the files of a course, on disk and in the database.     *)
(* Items, documents and secrets are interchangeable.                        *)
EXTENDS CredentialStore, TLC

CONSTANTS Items, Documents, Invalid, Mine, MaxFiles, MaxStamps

VARIABLES focus, files, draft, step, folder, torn, interrupted

Course == INSTANCE CourseFiles WITH disk <- folder

(* What distinguishes the names of files: 0 stands for no item and no digest. *)
ASSUME FolderAssumption ==
    /\ 0 \notin Items \union Documents /\ MaxStamps \in Nat
    /\ {None, Mine} \cap Documents = {} /\ None # Mine /\ None \notin Course!Paths

fileVars == <<files, draft, step, folder, torn, interrupted>>

Symmetry == Permutations(Items) \union Permutations(Documents) \union Permutations(Secrets)

MCInit ==
    /\ focus \in {"credentials", "files"}
    /\ Init /\ Course!Init
    /\ focus = "credentials" => files = <<>>

MCNext ==
    /\ UNCHANGED focus
    /\ \/ focus = "credentials" /\ Next /\ UNCHANGED fileVars
       \/ focus = "files" /\ Course!Next /\ UNCHANGED vars

MCSpec == MCInit /\ [][MCNext]_<<focus, vars, fileVars>>

FilesAreKept == Course!FilesAreKept
=============================================================================
