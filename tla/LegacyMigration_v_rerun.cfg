SPECIFICATION MigrationSpec
CONSTANTS
    MaxMigrations = 5
PROPERTIES ReRunSafe
CHECK_DEADLOCK FALSE
