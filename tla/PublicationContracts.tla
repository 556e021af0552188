------------------------- MODULE PublicationContracts -------------------------
(***************************************************************************)
(* What a producer profile says it can publish, and whether a publication  *)
(* fits it (publication_compatibility.py). A profile is a record of sets:  *)
(*   [module_id, core_schemas, work_contracts, publication_contracts],     *)
(* each publication contract                                               *)
(*   [kind, manifests, capabilities, sources, missing_source, readers],    *)
(* each source row [record_kind, versions, unversioned] and each reader    *)
(* [manifest, distribution, version]. Text is opaque.                      *)
(***************************************************************************)
EXTENDS Integers, FiniteSets

CONSTANT Missing   \* no source record, no version, no registration

PUBLICATION_RECORD_SCHEMA_VERSION == "1"

UniqueBy(rows, Key(_)) == \A r, s \in rows : Key(r) = Key(s) => r = s

(* PublicationContractSupport.__post_init__ *)
ValidSupport(support) ==
  LET Record(row) == row.record_kind
      Manifest(reader) == reader.manifest
  IN /\ support.manifests # {}
     /\ UniqueBy(support.sources, Record) /\ \A row \in support.sources : row.versions # {}
     /\ UniqueBy(support.readers, Manifest)
     /\ \A reader \in support.readers : reader.manifest \in support.manifests

(* PublicationProducerProfile.__post_init__, and what validating it again says. *)
ValidProducer(profile) ==
  LET Kind(row) == row.kind
  IN /\ profile.core_schemas # {} /\ profile.publication_contracts # {}
     /\ \A support \in profile.publication_contracts : ValidSupport(support)
     /\ UniqueBy(profile.publication_contracts, Kind)
     /\ (\E support \in profile.publication_contracts : support.kind = "academic_result_set") => profile.work_contracts # {}

Supports(profile, kind) == {support \in profile.publication_contracts : support.kind = kind}

(* The reader declared for exactly this manifest contract: at most one. *)
lookup_publication_reader_support(profile, kind, manifest) ==
  UNION {{reader \in support.readers : reader.manifest = manifest} : support \in Supports(profile, kind)}

(* What the source record of a publication lacks in the one contract of its kind. *)
SourceCodes(publication, profile, support) ==
  LET source == publication.source
      rows == {row \in support.sources : row.record_kind = source.record_kind}
      Versioned(row) == IF source.version = Missing THEN row.unversioned ELSE source.version \in row.versions
  IN IF source = Missing
     THEN IF support.missing_source THEN {} ELSE {"source_record_missing_incompatible"}
     ELSE IF rows = {} \/ source.module_id # profile.module_id THEN {"source_record_kind_incompatible"}
     ELSE IF \A row \in rows : Versioned(row) THEN {} ELSE {"source_record_version_incompatible"}

SupportCodes(publication, profile, support) ==
  {code \in {"manifest_version_incompatible"} : publication.manifest \notin support.manifests}
  \cup {code \in {"capability_incompatible"} : ~ publication.capabilities \subseteq support.capabilities}
  \cup SourceCodes(publication, profile, support)

(* The registration given, if any, is the one the record names: any other is refused. *)
Accompanies(registration, publication) ==
  registration # Missing =>
    /\ registration.work = publication.work /\ registration.revision = publication.revision
    /\ publication.kind = "academic_result_set"

(* The codes of an incompatible publication; a compatible one has none. *)
evaluate_publication_compatibility(publication, profile, registration) ==
  LET registered == registration # Missing /\ registration.contract \in profile.work_contracts
      supports == Supports(profile, publication.kind)
  IN {code \in {"profile_module_mismatch"} : publication.work.module_id # profile.module_id}
     \cup {code \in {"publication_schema_incompatible"} : publication.schema \notin profile.core_schemas}
     \cup {code \in {"registration_version_incompatible"} :
             publication.kind = "academic_result_set" /\ ~ registered}
     \cup {code \in {"publication_kind_incompatible"} : supports = {}}
     \cup UNION {SupportCodes(publication, profile, support) : support \in supports}

(***************************************************************************)
(* _scan_contracts of the audit: the findings about the publications, with *)
(* the registration revision each names, under the profiles of a registry. *)
(***************************************************************************)
ContractFindings(publications, registrations, profiles, required) ==
  LET Named(publication) ==
        LET matching == {r \in registrations : r.work = publication.work /\ r.revision = publication.revision}
        IN IF matching = {} THEN Missing ELSE CHOOSE r \in matching : TRUE
      Codes(publication) ==
        LET matching == {p \in profiles : p.module_id = publication.work.module_id}
        IN IF matching = {} THEN {<<IF required THEN "error" ELSE "info", "profile_unavailable">>}
           ELSE {"error"} \X UNION {evaluate_publication_compatibility(publication, p, Named(publication)) : p \in matching}
  IN [publication \in publications |-> Codes(publication)]

-----------------------------------------------------------------------------
(* One profile admits all that another does. *)
Widens(wide, narrow) ==
  /\ wide.module_id = narrow.module_id
  /\ narrow.core_schemas \subseteq wide.core_schemas /\ narrow.work_contracts \subseteq wide.work_contracts
  /\ \A n \in narrow.publication_contracts :
       \E w \in Supports(wide, n.kind) :
         /\ n.manifests \subseteq w.manifests /\ n.capabilities \subseteq w.capabilities
         /\ n.missing_source => w.missing_source
         /\ \A row \in n.sources :
              \E other \in w.sources :
                /\ other.record_kind = row.record_kind /\ row.versions \subseteq other.versions
                /\ row.unversioned => other.unversioned

(***************************************************************************)
(* A producer that supports more loses no publication it had, whatever it  *)
(* says of readers; and a reader is only ever named for a manifest the     *)
(* producer publishes, so that a compatible publication has at most one.   *)
(***************************************************************************)
WideningKeepsCompatible(profiles, publications, registrations) ==
  \A publication \in publications, narrow, wide \in profiles :
    Widens(wide, narrow) =>
      \A registration \in {r \in registrations : Accompanies(r, publication)} :
        evaluate_publication_compatibility(publication, narrow, registration) = {} =>
          evaluate_publication_compatibility(publication, wide, registration) = {}

ReadersAreForCompatibleManifests(profiles, publications) ==
  \A publication \in publications, profile \in profiles :
    LET readers == lookup_publication_reader_support(profile, publication.kind, publication.manifest)
        codes == evaluate_publication_compatibility(publication, profile, Missing)
    IN /\ Cardinality(readers) \leq 1
       /\ readers # {} => codes \cap {"publication_kind_incompatible", "manifest_version_incompatible"} = {}
=============================================================================
