---------------------------- MODULE MCFixtureIntake ----------------------------
(* One fixture, two kickoff times, one correction by the provider, and the  *)
(* pairs of jobs that meet on a row.                                        *)
EXTENDS FixtureIntake

EachCast ==
    { [runs |-> {"ingest", "manual"}, legacy |-> {}],
      [runs |-> {"ingest", "staging"}, legacy |-> {}],
      [runs |-> {"ingest", "staging"}, legacy |-> {"ingest", "staging"}],
      [runs |-> {"ingest", "active"}, legacy |-> {"active"}] }
=============================================================================
