------------------------------ MODULE MCServices ------------------------------
(***************************************************************************)
(* The native document sessions and other parts of the backend that keep   *)
(* something for the windows or for other programs, on small instances.    *)
(* They share no state, so one run explores each on its own: two document  *)
(* sessions on one path ("shared"), one session that moves between an .hwp *)
(* and an .hwpx path and renders a page ("paths"), the recent documents,   *)
(* the font preferences, the handlers a window waits for, the registration *)
(* of the thumbnail handler and its COM server.                            *)
(***************************************************************************)
EXTENDS DocumentSessions, RecentDocuments, FontPreferences, HandlerRuntime,
        Registration, ThumbnailServer, TLC

VARIABLE part

\* Documents, windows and threads of different parts are the same two values, so that the
\* permutations of these two serve every part.
Symmetry == Permutations(Docs) \cup Permutations(Documents)

kept == <<recent, fonts, handing>>
shell == <<registration, server>>
all == <<part, vars, kept, shell>>

InitServices ==
  /\ part \in {"shared", "paths", "recent", "fonts", "handlers", "registration", "server"}
  /\ Init /\ InitRecent /\ InitFonts /\ InitHanding /\ InitRegistration /\ InitServer
  /\ part = "fonts" \/ fontFile = "absent"
  /\ part = "registration" \/ assoc = [e \in Extensions |-> Missing]

OnePathOnly ==
  \A d \in Docs, p \in HwpxPaths :
    disk'[p] = Absent /\ req'.target # p /\ srcPath'[d] # p /\ cache'[d] = EmptyCache
OneSessionOnly == Cardinality(issued') <= 1

NextKept ==
  \/ part = "recent" /\ NextRecent /\ UNCHANGED <<fonts, handing>>
  \/ part = "fonts" /\ NextFonts /\ UNCHANGED <<recent, handing>>
  \/ part = "handlers" /\ NextHanding /\ UNCHANGED <<recent, fonts>>
NextShell ==
  \/ part = "registration" /\ NextRegistration /\ UNCHANGED server
  \/ part = "server" /\ NextServer /\ UNCHANGED registration

NextServices ==
  /\ UNCHANGED part
  /\ \/ part = "shared" /\ Next /\ OnePathOnly /\ UNCHANGED <<kept, shell>>
     \/ part = "paths" /\ Next /\ OneSessionOnly /\ UNCHANGED <<kept, shell>>
     \/ NextKept /\ UNCHANGED <<vars, shell>>
     \/ NextShell /\ UNCHANGED <<vars, kept>>

ServicesSpec == InitServices /\ [][NextServices]_all

\* Every part keeps its types.
ServicesTypeOK == /\ TypeOK /\ RecentTypeOK /\ FontsTypeOK /\ HandingTypeOK
                  /\ RegistrationTypeOK /\ ServerTypeOK
=============================================================================
