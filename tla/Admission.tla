------------------------------ MODULE Admission ------------------------------
(***************************************************************************)
(* What stands between a writer of an ElpioService and the operator: the   *)
(* webhook's policy (webhook/policy.py, webhook/server.py), the schema of  *)
(* the CRD (deploy/crds/elpioservice.yaml), and the pydantic mirror the    *)
(* operator reads the spec with (models/service.py).  Pure operators over  *)
(* the fields these look at.                                               *)
(***************************************************************************)
EXTENDS Integers, SequencesExt

CONSTANTS Names,       (* names of images, without the tag                     *)
          Entries      (* what a list of allowed registries may hold           *)

(* A text is the sequence of its pieces, cut wherever a comparison may     *)
(* end.  Of a name, tail is what follows the first colon, with the colon:  *)
(* the port of the registry and the rest of the path.                      *)
Texts == Seq(STRING)

ASSUME AdmissionAssumption ==
    /\ \A n \in Names : /\ n.head \in Texts /\ n.tail \in Texts
                        /\ n = [head |-> n.head, tail |-> n.tail]
    /\ \A e \in Entries : e \in Texts

(* The string "repo:tag" or the object [repository, tag].  A missing tag   *)
(* and an empty one are both "", a missing image and one without a         *)
(* repository both NoImage, a missing minScale is NoScale.                 *)
Images == [form : {"string", "object"}, name : Names,
           tag : {"", "latest", "pinned"}]
NoImage == [form |-> "none"]
NoScale == -1
Manifests == [image : Images \cup {NoImage}, requests : SUBSET {"cpu", "memory"},
              minScale : Int]

(* ELPIO_ALLOWED_REGISTRIES (none: all are), ELPIO_BAN_LATEST,             *)
(* ELPIO_REQUIRE_REQUESTS.                                                 *)
AllPolicies == [registries : SUBSET Entries, ban_latest : BOOLEAN,
                require_requests : BOOLEAN]

FullName(image) == image.name.head \o image.name.tail

(* A string is split at its first colon: of a name with a port, the rest   *)
(* of the name and the tag make the tag.                                   *)
Cuts(image) == image.form = "string" /\ image.name.tail # << >>
image_repository(image) ==
    IF image.form = "string" THEN image.name.head ELSE FullName(image)
image_tag(image) == IF Cuts(image) THEN "rest" ELSE image.tag

(* The repository starts with an entry of the list.                        *)
Listed(image, entries) == \E e \in entries : IsPrefix(e, image_repository(image))

(* Is the manifest allowed?                                                *)
evaluate(m, policy) ==
    /\ m.image # NoImage
    /\ image_repository(m.image) # << >>
    /\ policy.registries # {} => Listed(m.image, policy.registries)
    /\ policy.ban_latest => image_tag(m.image) \notin {"", "latest"}
    /\ policy.require_requests => {"cpu", "memory"} \subseteq m.requests

(* The manifest with the patch of the answer: scale to zero by default.    *)
patched(m) == IF m.minScale = NoScale THEN [m EXCEPT !.minScale = 0] ELSE m

(* "shipped": the CRD of the repository, in which spec.image has the type  *)
(* object.  "described": the CRD that its own description of spec.image,   *)
(* the README and the models speak of, in which a string is an image too.  *)
schema_accepts(m, crd) ==
    /\ m.image # NoImage
    /\ crd = "shipped" => m.image.form = "object"

(* The API server calls the webhook, applies its patch and validates.      *)
Admits(m, policy, crd) == evaluate(m, policy) /\ schema_accepts(patched(m), crd)

(* str(ImageRef.coerce(image)), the image that is run: put together again, *)
(* a string that was split is what it was.                                 *)
ImageRun(image) == [image EXCEPT !.form = "string"]

(* What the operator makes of the spec; Scaling fills in minScale.         *)
from_cr(m) == [image |-> ImageRun(m.image),
               minScale |-> IF m.minScale = NoScale THEN 0 ELSE m.minScale]
=============================================================================
