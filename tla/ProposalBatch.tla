--------------------------- MODULE ProposalBatch ----------------------------
(***************************************************************************)
(* The batch of proposed work items that a review's synthesis makes of its *)
(* drafts: each gets a key of what it proposes and an id of its title.     *)
(*                                                                         *)
(* A draft has a title, references (numbers, in their alphabetical order), *)
(* required approvals, whether it is tagged afk, and all the rest that its *)
(* key does not depend on.  The key is the hash of the preimage; hashes do *)
(* not collide, so it is the preimage.                                     *)
(***************************************************************************)
EXTENDS Sorting, SequencesExt

(* normalizeText: the reference 1 is 3 written with a wider gap.           *)
NormalizeRef(ref) == IF ref = 1 THEN 3 ELSE ref
(* slugify: two titles of one slug.                                        *)
Slugify(title) == IF title = "Fix it!" THEN "fix-it" ELSE IF title = "Fix it" THEN "fix-it" ELSE title

(* canonicalStringList: sorted and made unique before it is normalized.    *)
CanonicalList(refs) == LET sorted == Sorted(ToSet(refs), <) IN
  [i \in DOMAIN sorted |-> NormalizeRef(sorted[i])]
(* sortApprovals keeps what is there twice: the sorted list says no more    *)
(* than how often each approval is there.                                  *)
SortApprovals(approvals) == ToBag(approvals)

(* buildDedupePreimage, without the source that all drafts share.          *)
Preimage(draft) == [title |-> draft.title, refs |-> CanonicalList(draft.refs),
                    approvals |-> SortApprovals(draft.approvals)]

(* deriveProvisionalWorkItemId: the slug, or the slug and a longer and     *)
(* longer beginning of the hash.  Without a free one it throws.            *)
Suffix(key, size) == IF size = 0 THEN {} ELSE {key}
ProvisionalId(title, key, used) == LET
    free == {n \in {0, 8, 12, 16, 20, 24, 32} :
               [slug |-> Slugify(title), size |-> n, key |-> Suffix(key, n)] \notin used} IN
  IF free = {} THEN [slug |-> Slugify(title), size |-> 99, key |-> {}]
  ELSE [slug |-> Slugify(title), size |-> Min(free), key |-> Suffix(key, Min(free))]

(* normalizeProposalDraft, for one draft after the other.                  *)
Proposal(draft, id) ==
  [id |-> id, refs |-> CanonicalList(draft.refs), approvals |-> SortApprovals(draft.approvals),
   afk |-> draft.afk, rest |-> draft.rest, key |-> Preimage(draft)]
Proposals(drafts) == FoldLeft(LAMBDA made, d :
  Append(made, Proposal(d, ProvisionalId(d.title, Preimage(d), {p.id : p \in ToSet(made)}))),
  <<>>, drafts)

(* ensureNoAfkWithApprovals and ensureUniqueFieldValues.                   *)
Waits(p) == p.afk /\ p.approvals # <<>>
Consistent(proposals) ==
  /\ \A i \in DOMAIN proposals : ~Waits(proposals[i])
  /\ IsInjective([i \in DOMAIN proposals |-> proposals[i].id])
  /\ IsInjective([i \in DOMAIN proposals |-> proposals[i].key])

(* buildWorkItemProposalBatch: nothing, or the proposals, which are sorted *)
(* by their ids.                                                           *)
Built(drafts) ==
  /\ \A i \in DOMAIN drafts : Proposals(drafts)[i].id.size # 99
  /\ Consistent(Proposals(drafts))
Batch(drafts) == ToSet(Proposals(drafts))

(* validateWorkItemProposalBatch: the schema wants references, and none    *)
(* twice.                                                                  *)
BatchValid(drafts) == Consistent(Proposals(drafts))
  /\ \A p \in Batch(drafts) : p.refs # <<>> /\ IsInjective(p.refs)
=============================================================================
