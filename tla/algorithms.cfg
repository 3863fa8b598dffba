SPECIFICATION Spec
INVARIANTS UrlsAreIdentified KeysAreIdentified FingerprintsAreMajorities TrustNeverFalls RatingsAreTheLastBlocks TrackersReadBack BestSourcesWin ProfilesAreOfOneCompany
