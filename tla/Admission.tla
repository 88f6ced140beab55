----------------------------- MODULE Admission -----------------------------
(***************************************************************************)
(* Which contents may enter, on their way from a client to the analysis:    *)
(* fetch_image_bytes (apps/api/app/url_fetch.py) for an image given by URL, *)
(* accept_image's own checks (ingest_service.py) for every image, and the   *)
(* worker's validate (pipeline.py) of what was stored.  A content hash      *)
(* stands for its bytes: how many they are and what type they tell.         *)
(***************************************************************************)
EXTENDS Naturals

CONSTANTS Hash,
          Type,         \* content types; one of them for "anything else"
          ImageTypes,   \* ALLOWED_IMAGE_TYPES of the API, ALLOWED_TYPES of the worker
          ApiTypes,     \* the API's setting ALLOWED_CONTENT_TYPES
          ApiMax,       \* MAX_UPLOAD_BYTES as the API reads it
          WorkerMax,    \* ... and as the worker does
          Size,         \* length of the bytes
          Magic,        \* the type their first bytes tell, or None
          None

ASSUME SizeAssumption == Size \in [Hash -> Nat] /\ ApiMax \in Nat /\ WorkerMax \in Nat
ASSUME MagicAssumption == Magic \in [Hash -> ImageTypes \cup {None}]
ASSUME TypesAssumption == ImageTypes \cup ApiTypes \subseteq Type /\ None \notin Type
\* MAX_UPLOAD_BYTES comes from the one .env file that API and worker are started with.  Of
\* the types nothing is assumed: ALLOWED_CONTENT_TYPES is a setting of the API, the
\* worker's list is fixed.
ASSUME SettingsAssumption == ApiMax <= WorkerMax

(* sniff_content_type: the bytes decide, and the header when they tell      *)
(* nothing.                                                                 *)
Sniffed(h, header) ==
  IF Magic[h] # None THEN Magic[h] ELSE IF header \in ImageTypes THEN header ELSE None

(* What a download has to pass: no more than max_bytes read, something read, *)
(* and of a type that is known.                                             *)
Fetchable(h, header) == Size[h] \in 1..ApiMax /\ Sniffed(h, header) # None

\* Mutant: the settings' list of types is not consulted
AdmittedAnyType(h, type) == Size[h] \in 1..ApiMax

(* accept_image: 415, 400 and 413.                                         *)
Admitted(h, type) == type \in ApiTypes /\ Size[h] \in 1..ApiMax

(* The worker's validate.                                                  *)
Valid(h, type) == type \in ImageTypes /\ Size[h] \in 1..WorkerMax
=============================================================================
